---- MODULE Spec2Model ----
(***************************************************************************)
(* A model of the emulator core of gameboy-rust-wasm: the memory unit      *)
(* (src/src/mmu.rs), the processor, timer, interrupt controller and        *)
(* scanline renderer (src/src/cpu.rs), the opcode dispatch                 *)
(* (src/src/ops.rs) and the frame driver (src/src/lib.rs).                 *)
(*                                                                         *)
(* The 64KB address space, the external RAM store and the pixel buffer are *)
(* kept as sparse functions: an address outside the DOMAIN holds 0.        *)
(* Fixed-width integer arithmetic wraps (% 2^w), as in the release build   *)
(* that the wasm target is made with.                                      *)
(***************************************************************************)
EXTENDS Integers, Naturals, Sequences, FiniteSets, TLC

VARIABLES
    memory,            \* Mmu.memory: [u8; 0x10000], sparse
    joypad,            \* Mmu.joypad
    mbc1,              \* Mmu.mbc1
    mbc2,              \* Mmu.mbc2
    rom_banking,       \* Mmu.rom_banking
    current_rom_bank,  \* Mmu.current_rom_bank
    ram_banks,         \* Mmu.ram_banks: [u8; 0x8000], sparse
    current_ram_bank,  \* Mmu.current_ram_bank
    enable_ram,        \* Mmu.enable_ram
    timer_counter,     \* Mmu.timer_counter
    cartridge,         \* Mmu.cartridge: the cartridge image, sparse
    registers,         \* Cpu.registers
    program_counter,   \* Cpu.program_counter
    stack_pointer,     \* Cpu.stack_pointer
    divider_counter,   \* Cpu.divider_counter
    interrupt_master,  \* Cpu.interrupt_master
    scanline_counter,  \* Cpu.scanline_counter
    screen_data,       \* Cpu.screen_data: Vec<u8> of 160*144*3, sparse
    halted,            \* Cpu.halted
    cycles_this_update,\* Emulator::update: the local of the frame loop
    in_update,         \* Emulator::update: TRUE while the frame loop runs
    last,              \* history: the operation that led to this state
    hist               \* history: counters of what has happened so far

vars == << memory, joypad, mbc1, mbc2, rom_banking, current_rom_bank, ram_banks,
           current_ram_bank, enable_ram, timer_counter, cartridge, registers,
           program_counter, stack_pointer, divider_counter, interrupt_master,
           scanline_counter, screen_data, halted, cycles_this_update,
           in_update, last, hist >>

-----------------------------------------------------------------------------
(* Fixed-width arithmetic and bit operations.                              *)

U8(x)    == x % 256
U16(x)   == x % 65536

\* usize is 32 bits wide on the wasm target, which is beyond the integers of
\* the model checker: a usize u >= 2^31 is held as the negative number
\* u - 2^32.  Subtraction is then plain subtraction (while it stays within
\* the 32 bits), and the unsigned test `u <= 0` is u = 0.
UsizeSub(a, b) == a - b
UsizeLeZero(a) == a = 0

RECURSIVE BitAndN(_, _, _)
BitAndN(a, b, n) ==
    IF n = 0 \/ a = 0 \/ b = 0 THEN 0
    ELSE (a % 2) * (b % 2) + 2 * BitAndN(a \div 2, b \div 2, n - 1)

BitAnd(a, b) == BitAndN(a, b, 16)
BitOr(a, b)  == a + b - BitAnd(a, b)
BitXor(a, b) == a + b - 2 * BitAnd(a, b)
Shr(a, n)    == a \div (2 ^ n)
Shl8(a, n)   == U8(a * (2 ^ n))
Shl16(a, n)  == U16(a * (2 ^ n))

-----------------------------------------------------------------------------
(* src/src/utils.rs: the memory-mapped register addresses.                 *)

DIVIDER_REGISTER_ADDR  == \hFF04
TIMER_ADDR             == \hFF05
TIMER_MODULATOR_ADDR   == \hFF06
TIMER_CONTROLLER_ADDR  == \hFF07
INTERRUPT_ENABLED_ADDR == \hFFFF
INTERRUPT_REQUEST_ADDR == \hFF0F
CURRENT_SCANLINE_ADDR  == \hFF44
LCD_STATUS_ADDR        == \hFF41
LCD_CONTROL_ADDR       == \hFF40
SCROLL_Y_ADDR          == \hFF42
SCROLL_X_ADDR          == \hFF43
WINDOW_Y_ADDR          == \hFF4A
WINDOW_X_ADDR          == \hFF4B
COLOR_PALLETTE_ADDR    == \hFF47
SPRITE_ATTRIBUTE_ADDR  == \hFE00

-----------------------------------------------------------------------------
(* Sparse byte arrays.                                                     *)

MemGet(m, a) == IF a \in DOMAIN m THEN m[a] ELSE 0

MemPut(m, a, d) ==
    IF d = 0
    THEN [x \in (DOMAIN m) \ {a} |-> m[x]]
    ELSE [x \in (DOMAIN m) \cup {a} |-> IF x = a THEN d ELSE m[x]]

EmptyMem == [x \in {} |-> 0]

-----------------------------------------------------------------------------
(* The cartridge.  Game::read_catridge_data is a placeholder in the        *)
(* repository and the loader (Game::load_game_memory) is empty; the image  *)
(* is the program's input.  An image here is all zero but for the header   *)
(* byte at 0x147, which selects the banking controller.                    *)

CartridgeTypes == {0, 1}

Cartridges == { IF t = 0 THEN EmptyMem ELSE (\h147 :> t) : t \in CartridgeTypes }

ReadCatridgeData(cart, address) == MemGet(cart, address)

-----------------------------------------------------------------------------
(* Mmu::new and Cpu::new: the state after construction.                    *)

PowerOnMemory ==
    (\hFF10 :> \h80) @@ (\hFF11 :> \hBF) @@ (\hFF12 :> \hF3) @@
    (\hFF14 :> \hBF) @@ (\hFF16 :> \h3F) @@ (\hFF19 :> \hBF) @@
    (\hFF1A :> \h7F) @@ (\hFF1B :> \hFF) @@ (\hFF1C :> \h9F) @@
    (\hFF1E :> \hBF) @@ (\hFF20 :> \hFF) @@ (\hFF23 :> \hBF) @@
    (\hFF24 :> \h77) @@ (\hFF25 :> \hF3) @@ (\hFF26 :> \hF1) @@
    (\hFF40 :> \h91) @@ (\hFF47 :> \hFC) @@ (\hFF48 :> \hFF) @@
    (\hFF49 :> \hFF)

\* memory[i] = game.read_catridge_data(i) for i in 0..0x8000
RomImage(cart) ==
    [a \in {x \in DOMAIN cart : x < \h8000 /\ ReadCatridgeData(cart, x) # 0}
        |-> ReadCatridgeData(cart, a)]

InitialRomBank == 1

NewMmuCpu(game) ==
    [ memory           |-> RomImage(game) @@ PowerOnMemory,
      joypad           |-> 7,
      mbc1             |-> FALSE,
      mbc2             |-> FALSE,
      rom_banking      |-> TRUE,
      current_rom_bank |-> InitialRomBank,
      ram_banks        |-> EmptyMem,
      current_ram_bank |-> 0,
      enable_ram       |-> FALSE,
      timer_counter    |-> 1024,
      cartridge        |-> game,
      registers        |-> [AF |-> 0, BC |-> 0, DE |-> 0, HL |-> 0],
      program_counter  |-> \h100,
      stack_pointer    |-> \hFFFE,
      divider_counter  |-> 0,
      interrupt_master |-> TRUE,
      scanline_counter |-> 456,
      screen_data      |-> EmptyMem,
      halted           |-> FALSE ]

\* The current state as one record, and the step that installs a record.
Cur ==
    [ memory           |-> memory,
      joypad           |-> joypad,
      mbc1             |-> mbc1,
      mbc2             |-> mbc2,
      rom_banking      |-> rom_banking,
      current_rom_bank |-> current_rom_bank,
      ram_banks        |-> ram_banks,
      current_ram_bank |-> current_ram_bank,
      enable_ram       |-> enable_ram,
      timer_counter    |-> timer_counter,
      cartridge        |-> cartridge,
      registers        |-> registers,
      program_counter  |-> program_counter,
      stack_pointer    |-> stack_pointer,
      divider_counter  |-> divider_counter,
      interrupt_master |-> interrupt_master,
      scanline_counter |-> scanline_counter,
      screen_data      |-> screen_data,
      halted           |-> halted ]

Become(s) ==
    /\ memory'           = s.memory
    /\ joypad'           = s.joypad
    /\ mbc1'             = s.mbc1
    /\ mbc2'             = s.mbc2
    /\ rom_banking'      = s.rom_banking
    /\ current_rom_bank' = s.current_rom_bank
    /\ ram_banks'        = s.ram_banks
    /\ current_ram_bank' = s.current_ram_bank
    /\ enable_ram'       = s.enable_ram
    /\ timer_counter'    = s.timer_counter
    /\ cartridge'        = s.cartridge
    /\ registers'        = s.registers
    /\ program_counter'  = s.program_counter
    /\ stack_pointer'    = s.stack_pointer
    /\ divider_counter'  = s.divider_counter
    /\ interrupt_master' = s.interrupt_master
    /\ scanline_counter' = s.scanline_counter
    /\ screen_data'      = s.screen_data
    /\ halted'           = s.halted

-----------------------------------------------------------------------------
(* src/src/mmu.rs: reads.                                                  *)

\* Mmu::get_joypad_state
GetJoypadState(s) ==
    LET result == BitXor(MemGet(s.memory, \hFF00), \hFF)
    IN  IF BitAnd(result, 32) > 0
        THEN BitAnd(result, BitOr(Shr(s.joypad, 4), \hF0))
        ELSE IF BitAnd(result, 16) > 0
        THEN BitAnd(result, BitOr(BitAnd(s.joypad, \hF), \hF0))
        ELSE result

\* Mmu::do_read_cartridge_data: the address it hands to the cartridge
CartridgeAddress(s, address) ==
    (address - \h4000) + s.current_rom_bank * \h4000

\* Mmu::do_read_cartridge_data
DoReadCartridgeData(s, address) ==
    ReadCatridgeData(s.cartridge, CartridgeAddress(s, address))

\* Mmu::do_read_ram_bank
DoReadRamBank(s, address) ==
    MemGet(s.ram_banks, (address - \hA000) + s.current_ram_bank * \h2000)

\* Mmu::read_memory
ReadMemory(s, address) ==
    IF address = \hFF00 THEN GetJoypadState(s)
    ELSE IF address >= \h4000 /\ address <= \h7FFF THEN DoReadCartridgeData(s, address)
    ELSE IF address >= \hA000 /\ address <= \hBFFF THEN DoReadRamBank(s, address)
    ELSE MemGet(s.memory, address)

\* Mmu::get_clock_frequency
GetClockFrequency(s) == BitAnd(ReadMemory(s, TIMER_CONTROLLER_ADDR), 3)

\* Mmu::set_clock_frequency
SetClockFrequency(s) ==
    LET frequency == GetClockFrequency(s)
    IN  [s EXCEPT !.timer_counter =
            CASE frequency = 0 -> 1024
              [] frequency = 1 -> 16
              [] frequency = 2 -> 64
              [] frequency = 3 -> 256
              [] OTHER         -> @]

\* Mmu::decrease_timer_counter
DecreaseTimerCounter(s, cycles) ==
    [s EXCEPT !.timer_counter = UsizeSub(@, cycles)]

\* Mmu::increment_divider_register
IncrementDividerRegister(s) ==
    [s EXCEPT !.memory =
        MemPut(@, DIVIDER_REGISTER_ADDR, U8(MemGet(@, DIVIDER_REGISTER_ADDR) + 1))]

-----------------------------------------------------------------------------
(* src/src/mmu.rs: the banking controller.                                 *)

\* Mmu::do_enable_ram_banking
DoEnableRamBanking(s, address, data) ==
    IF s.mbc2
    THEN IF BitAnd(address, 8) = 1
         THEN s
         ELSE LET lower_nibble == BitAnd(data, \hF)
              IN  IF lower_nibble = \hA THEN [s EXCEPT !.enable_ram = TRUE]
                  ELSE IF lower_nibble = 0 THEN [s EXCEPT !.enable_ram = FALSE]
                  ELSE s
    ELSE s

\* Mmu::do_rom_lo_bank_change: both branches test mbc2
DoRomLoBankChange(s, data) ==
    IF s.mbc2
    THEN LET bank == BitAnd(data, \hF)
         IN  [s EXCEPT !.current_rom_bank = IF bank = 0 THEN bank + 1 ELSE bank]
    ELSE IF s.mbc2
    THEN LET bank == BitOr(BitAnd(s.current_rom_bank, 224), BitAnd(data, 31))
         IN  [s EXCEPT !.current_rom_bank = IF bank = 0 THEN bank + 1 ELSE bank]
    ELSE s

\* A variant of do_rom_hi_bank_change that stores the masked data as the
\* whole index and forgets the correction of 0.
DoRomHiBankChangeAssign(s, data) ==
    [s EXCEPT !.current_rom_bank = BitAnd(data, 224)]

\* Mmu::do_rom_hi_bank_change
DoRomHiBankChange(s, data) ==
    LET bank == BitOr(BitAnd(s.current_rom_bank, 31), BitAnd(data, 224))
    IN  [s EXCEPT !.current_rom_bank = IF bank = 0 THEN bank + 1 ELSE bank]

\* A variant of do_ram_bank_change that takes the low nibble of the data.
DoRamBankChangeNibble(s, data) ==
    [s EXCEPT !.current_ram_bank = BitAnd(data, \hF)]

\* Mmu::do_ram_bank_change
DoRamBankChange(s, data) ==
    [s EXCEPT !.current_ram_bank = BitAnd(data, 2)]

\* A variant of do_change_rom_ram_mode that keeps the RAM bank index when it
\* selects ROM banking.
DoChangeRomRamModeKeepBank(s, data) ==
    IF s.mbc1
    THEN [s EXCEPT !.rom_banking = (BitAnd(data, 1) = 0)]
    ELSE s

\* Mmu::do_change_rom_ram_mode
DoChangeRomRamMode(s, data) ==
    IF s.mbc1
    THEN IF BitAnd(data, 1) = 0
         THEN [s EXCEPT !.rom_banking = TRUE, !.current_ram_bank = 0]
         ELSE [s EXCEPT !.rom_banking = FALSE]
    ELSE s

\* Mmu::do_rom_or_ram_bank_change
DoRomOrRamBankChange(s, data) ==
    IF s.mbc1
    THEN IF s.rom_banking THEN DoRomHiBankChange(s, data)
                          ELSE DoRamBankChange(s, data)
    ELSE s

\* A variant of do_handle_banking that also stores the byte, as a plain
\* write would.
DoHandleBankingStore(s, address, data) ==
    [s EXCEPT !.memory = MemPut(@, address, data)]

\* Mmu::do_handle_banking
DoHandleBanking(s, address, data) ==
    IF address < \h2000 THEN DoEnableRamBanking(s, address, data)
    ELSE IF address >= \h2000 /\ address < \h4000 THEN DoRomLoBankChange(s, data)
    ELSE IF address >= \h4000 /\ address < \h6000 THEN DoRomOrRamBankChange(s, data)
    ELSE IF address >= \h6000 /\ address < \h8000 THEN DoChangeRomRamMode(s, data)
    ELSE s

\* Mmu::determine_rom_banking_type
DetermineRomBankingType(s) ==
    IF MemGet(s.memory, \h147) \in 1..6 THEN [s EXCEPT !.mbc1 = TRUE] ELSE s

-----------------------------------------------------------------------------
(* src/src/mmu.rs: writes.                                                 *)

\* Mmu::do_handle_ram_banks
DoHandleRamBanks(s, address, data) ==
    IF s.enable_ram
    THEN [s EXCEPT !.ram_banks =
            MemPut(@, (address - \hA000) + s.current_ram_bank * \h2000, data)]
    ELSE s

\* Mmu::do_write_data
DoWriteData(s, address, data) ==
    [s EXCEPT !.memory = MemPut(@, address, data)]

\* A variant of do_handle_timer_controller that reloads the counter on
\* every write.
DoHandleTimerControllerReload(s, data) ==
    SetClockFrequency([s EXCEPT !.memory = MemPut(@, TIMER_CONTROLLER_ADDR, data)])

\* Mmu::do_handle_timer_controller
DoHandleTimerController(s, data) ==
    LET current_frequency == GetClockFrequency(s)
        s1                == [s EXCEPT !.memory = MemPut(@, TIMER_CONTROLLER_ADDR, data)]
        new_frequency     == GetClockFrequency(s1)
    IN  IF current_frequency # new_frequency THEN SetClockFrequency(s1) ELSE s1

\* Mmu::do_echo_write
DoEchoWrite(s, address, data) ==
    DoWriteData(DoWriteData(s, address - \h2000, data), address, data)

\* Mmu::do_dma_transer: u8::checked_shl(8) is None (the shift equals the
\* width), so the source address is unwrap_or(0).  The destination
\* addresses 0xFE00..=0xFE9F take the plain arm of write_memory; the source
\* bytes are read through read_memory before each store.
\* The loop `for i in 0xFE00..=0xFE9F`: the source bytes lie below the
\* destination, so no store of the loop changes a byte it reads later.
DmaCopy(s, source_address) ==
    LET Byte(a) == IF a >= \hFE00 /\ a <= \hFE9F
                   THEN ReadMemory(s, source_address + (a - \hFE00))
                   ELSE MemGet(s.memory, a)
    IN  [s EXCEPT !.memory =
            [ a \in { x \in (DOMAIN s.memory) \cup (\hFE00..\hFE9F) : Byte(x) # 0 }
                |-> Byte(a) ]]

DoDmaTranser(s, data) == DmaCopy(s, 0)

\* Mmu::write_memory
WriteMemory(s, address, data) ==
    IF address < \h8000 THEN DoHandleBanking(s, address, data)
    ELSE IF address >= \hA000 /\ address < \hC000 THEN DoHandleRamBanks(s, address, data)
    ELSE IF address = DIVIDER_REGISTER_ADDR THEN [s EXCEPT !.memory = MemPut(@, address, 0)]
    ELSE IF address = TIMER_CONTROLLER_ADDR THEN DoHandleTimerController(s, data)
    ELSE IF address = \hFF44 THEN [s EXCEPT !.memory = MemPut(@, address, 0)]
    ELSE IF address = \hFF46 THEN DoDmaTranser(s, data)
    ELSE IF address >= \hFEA0 /\ address < \hFEFF THEN s
    ELSE IF address >= \hE000 /\ address < \hFDFF THEN DoEchoWrite(s, address, data)
    ELSE DoWriteData(s, address, data)

-----------------------------------------------------------------------------
(* Mmu::increment_scanline_value and Mmu::reset_scanline_value are called  *)
(* by the processor but are not defined in src/src/mmu.rs.  They access    *)
(* the scanline byte directly (a write through write_memory would reset    *)
(* it): one adds 1 to it, the other sets it to 0.                          *)

IncrementScanlineValue(s) ==
    [s EXCEPT !.memory =
        MemPut(@, CURRENT_SCANLINE_ADDR, U8(MemGet(@, CURRENT_SCANLINE_ADDR) + 1))]

\* A variant of reset_scanline_value that leaves the scanline byte.
ResetScanlineValueKeep(s) == s

ResetScanlineValue(s) ==
    [s EXCEPT !.memory = MemPut(@, CURRENT_SCANLINE_ADDR, 0)]

-----------------------------------------------------------------------------
(* src/src/cpu.rs: interrupts and the stack.                               *)

\* the bit masks of request_interrupt, check_interrupt_bit and
\* service_interrupt: 0 => 1, 1 => 2, 2 => 4, 4 => 16
InterruptMask(bit) ==
    CASE bit = 0 -> 1
      [] bit = 1 -> 2
      [] bit = 2 -> 4
      [] bit = 4 -> 16
      [] OTHER   -> 0

\* A variant of request_interrupt that takes the number of the bit for its
\* mask.
RequestInterruptByNumber(s, bit) ==
    LET interrupt_request_value == ReadMemory(s, INTERRUPT_REQUEST_ADDR)
    IN  WriteMemory(s, INTERRUPT_REQUEST_ADDR, BitOr(interrupt_request_value, bit))

\* Cpu::request_interrupt
RequestInterrupt(s, bit) ==
    LET interrupt_request_value == ReadMemory(s, INTERRUPT_REQUEST_ADDR)
        mask == IF bit \in {0, 1, 2, 4} THEN InterruptMask(bit)
                                        ELSE interrupt_request_value
    IN  WriteMemory(s, INTERRUPT_REQUEST_ADDR, BitOr(interrupt_request_value, mask))

\* Cpu::check_interrupt_bit
CheckInterruptBit(bit, interrupt_register_value) ==
    /\ bit \in {0, 1, 2, 4}
    /\ BitAnd(InterruptMask(bit), interrupt_register_value) > 0

\* A variant of push_word_to_stack that stores the low byte first.
PushWordToStackLowFirst(s, word) ==
    LET hi == U8(Shr(word, 8))
        lo == BitAnd(word, \hFF)
        s1 == [s EXCEPT !.stack_pointer = U16(@ - 1)]
        s2 == WriteMemory(s1, s1.stack_pointer, lo)
        s3 == [s2 EXCEPT !.stack_pointer = U16(@ - 1)]
    IN  WriteMemory(s3, s3.stack_pointer, hi)

\* Cpu::push_word_to_stack
PushWordToStack(s, word) ==
    LET hi == U8(Shr(word, 8))
        lo == BitAnd(word, \hFF)
        s1 == [s EXCEPT !.stack_pointer = U16(@ - 1)]
        s2 == WriteMemory(s1, s1.stack_pointer, hi)
        s3 == [s2 EXCEPT !.stack_pointer = U16(@ - 1)]
    IN  WriteMemory(s3, s3.stack_pointer, lo)

\* Cpu::pop_word_from_stack: the state after it, and the word it returns
PopWordFromStack(s) ==
    LET sp   == s.stack_pointer
        word == BitOr(Shl16(ReadMemory(s, sp + 1), 8), ReadMemory(s, sp))
    IN  [s |-> [s EXCEPT !.stack_pointer = U16(@ + 2)], word |-> word]

\* the vectors of service_interrupt
InterruptVector(bit, pc) ==
    CASE bit = 0 -> \h40
      [] bit = 1 -> \h48
      [] bit = 2 -> \h50
      [] bit = 4 -> \h60
      [] OTHER   -> pc

\* A variant of service_interrupt that sets the program counter before it
\* pushes it.
ServiceInterruptPushVector(s, bit) ==
    LET s1 == [s EXCEPT !.interrupt_master = FALSE]
        interrupt_request_value == ReadMemory(s1, INTERRUPT_REQUEST_ADDR)
        mask == IF bit \in {0, 1, 2, 4} THEN InterruptMask(bit)
                                        ELSE interrupt_request_value
        s2 == WriteMemory(s1, INTERRUPT_REQUEST_ADDR, BitXor(interrupt_request_value, mask))
        s3 == [s2 EXCEPT !.program_counter = InterruptVector(bit, @)]
    IN  PushWordToStack(s3, s3.program_counter)

\* A variant of service_interrupt that leaves the master switch on.
ServiceInterruptKeepMaster(s, bit) ==
    LET interrupt_request_value == ReadMemory(s, INTERRUPT_REQUEST_ADDR)
        mask == IF bit \in {0, 1, 2, 4} THEN InterruptMask(bit)
                                        ELSE interrupt_request_value
        s2 == WriteMemory(s, INTERRUPT_REQUEST_ADDR, BitXor(interrupt_request_value, mask))
        s3 == PushWordToStack(s2, s2.program_counter)
    IN  [s3 EXCEPT !.program_counter = InterruptVector(bit, @)]

\* Cpu::service_interrupt
ServiceInterrupt(s, bit) ==
    LET s1 == [s EXCEPT !.interrupt_master = FALSE]
        interrupt_request_value == ReadMemory(s1, INTERRUPT_REQUEST_ADDR)
        mask == IF bit \in {0, 1, 2, 4} THEN InterruptMask(bit)
                                        ELSE interrupt_request_value
        s2 == WriteMemory(s1, INTERRUPT_REQUEST_ADDR, BitXor(interrupt_request_value, mask))
        s3 == PushWordToStack(s2, s2.program_counter)
    IN  [s3 EXCEPT !.program_counter = InterruptVector(bit, @)]

\* Cpu::do_interrupts: the loop `for i in 0..5`, on the two register values
\* read before it
RECURSIVE ServiceLoop(_, _, _, _)
ServiceLoop(s, i, interrupt_request_value, interrupt_enabled_value) ==
    IF i >= 5 THEN s
    ELSE ServiceLoop(
            IF /\ CheckInterruptBit(i, interrupt_request_value)
               /\ CheckInterruptBit(i, interrupt_enabled_value)
            THEN ServiceInterrupt(s, i) ELSE s,
            i + 1, interrupt_request_value, interrupt_enabled_value)

\* A variant of do_interrupts that does not test the master switch.
DoInterruptsIgnoreMaster(s) ==
    LET interrupt_request_value == ReadMemory(s, INTERRUPT_REQUEST_ADDR)
        interrupt_enabled_value == ReadMemory(s, INTERRUPT_ENABLED_ADDR)
    IN  IF interrupt_request_value > 0
        THEN ServiceLoop(s, 0, interrupt_request_value, interrupt_enabled_value)
        ELSE s

\* Cpu::do_interrupts
DoInterrupts(s) ==
    IF s.interrupt_master
    THEN LET interrupt_request_value == ReadMemory(s, INTERRUPT_REQUEST_ADDR)
             interrupt_enabled_value == ReadMemory(s, INTERRUPT_ENABLED_ADDR)
         IN  IF interrupt_request_value > 0
             THEN ServiceLoop(s, 0, interrupt_request_value, interrupt_enabled_value)
             ELSE s
    ELSE s

-----------------------------------------------------------------------------
(* src/src/cpu.rs: the timer.                                              *)

\* Cpu::do_divider_register (cycles arrives as u16)
DoDividerRegister(s, cycles) ==
    LET s1 == [s EXCEPT !.divider_counter = U16(@ + U16(cycles))]
    IN  IF s1.divider_counter >= 255
        THEN IncrementDividerRegister([s1 EXCEPT !.divider_counter = 0])
        ELSE s1

\* Cpu::is_clock_enabled: the mask is 8
IsClockEnabled(s) == BitAnd(ReadMemory(s, TIMER_CONTROLLER_ADDR), 8) > 0

\* Cpu::update_timers
UpdateTimers(s, cycles) ==
    LET s1 == DoDividerRegister(s, cycles)
    IN  IF IsClockEnabled(s1)
        THEN LET s2 == DecreaseTimerCounter(s1, cycles)
             IN  IF UsizeLeZero(s2.timer_counter)
                 THEN LET s3 == SetClockFrequency(s2)
                      IN  IF ReadMemory(s3, TIMER_ADDR) = 255
                          THEN RequestInterrupt(
                                 WriteMemory(s3, TIMER_ADDR,
                                             ReadMemory(s3, TIMER_MODULATOR_ADDR)), 2)
                          ELSE WriteMemory(s3, TIMER_ADDR, ReadMemory(s3, TIMER_ADDR) + 1)
                 ELSE s2
        ELSE s1

-----------------------------------------------------------------------------
(* src/src/ops.rs and Cpu::execute_op.                                     *)

\* A variant of cpu_16_bit_load that costs 16 cycles.
Cpu16BitLoadSixteen(s, pair) ==
    LET address == U16(s.program_counter + 1)
        data    == BitOr(Shl16(ReadMemory(s, address), 8), ReadMemory(s, address))
    IN  [s |-> [s EXCEPT !.registers[pair] = data], cycles |-> 16]

\* ops::cpu_16_bit_load: both operand addresses are program_counter + 1;
\* the state after it, and its cost
Cpu16BitLoad(s, pair) ==
    LET first_address  == U16(s.program_counter + 1)
        second_address == U16(s.program_counter + 1)
        data == BitOr(Shl16(ReadMemory(s, first_address), 8),
                      ReadMemory(s, second_address))
    IN  [s |-> [s EXCEPT !.registers[pair] = data], cycles |-> 12]

\* ops::do_execute_op: every 16-bit load names the pair BC
\* A variant of do_execute_op whose default arm costs 8 cycles.
DoExecuteOpDefaultEight(s, operation) ==
    IF operation = \h00 THEN [s |-> s, cycles |-> 4]
    ELSE IF operation \in {\h01, \h11, \h21, \h31} THEN Cpu16BitLoad(s, "BC")
    ELSE [s |-> s, cycles |-> 8]

DoExecuteOp(s, operation) ==
    IF operation = \h00 THEN [s |-> s, cycles |-> 4]
    ELSE IF operation \in {\h01, \h11, \h21, \h31} THEN Cpu16BitLoad(s, "BC")
    ELSE [s |-> s, cycles |-> 4]

\* Cpu::execute_op: the state after it, and the cycles it returns
ExecuteOp(s) ==
    IF ~s.halted
    THEN LET next_op == ReadMemory(s, s.program_counter)
             r       == DoExecuteOp(s, next_op)
         IN  [s |-> [r.s EXCEPT !.program_counter = U16(@ + 1)], cycles |-> r.cycles]
    ELSE [s |-> s, cycles |-> 4]

-----------------------------------------------------------------------------
(* src/src/cpu.rs: the renderer.  A pixel store is a record                *)
(* [x, y, at, rgb]: the computed coordinates, the three indices written    *)
(* and the three bytes stored there.                                       *)

SCREEN_WIDTH  == 160
SCREEN_HEIGHT == 144
SCREEN_BYTES  == SCREEN_WIDTH * SCREEN_HEIGHT * 3

\* Cpu::get_color
GetColor(s, color_num, pallette_addr) ==
    LET pallette == ReadMemory(s, pallette_addr)
        hi == CASE color_num = 0 -> 1 [] color_num = 1 -> 3
                [] color_num = 2 -> 5 [] color_num = 3 -> 7 [] OTHER -> 0
        lo == CASE color_num = 0 -> 0 [] color_num = 1 -> 2
                [] color_num = 2 -> 4 [] color_num = 3 -> 6 [] OTHER -> 0
        color == BitOr(Shl8(BitAnd(Shr(pallette, hi), 1), 1), BitAnd(Shr(pallette, lo), 1))
    IN  CASE color = 1 -> "light_gray"
          [] color = 2 -> "dark_gray"
          [] color = 3 -> "black"
          [] OTHER     -> "white"

\* the red, green and blue bytes chosen from the colour name
ColorBytes(color) ==
    CASE color = "white"      -> << 255, 255, 255 >>
      [] color = "dark_gray"  -> << \hCC, \hCC, \hCC >>
      [] color = "light_gray" -> << \h77, \h77, \h77 >>
      [] OTHER                -> << 0, 0, 0 >>

\* the three indices of a pixel store: ((pixel * 160 + line) * k) as usize
\* for k = 1, 2, 3, computed in u8
PixelIndices(pixel, line) ==
    LET v == U8(U8(pixel * 160) + line)
    IN  << U8(v * 1), U8(v * 2), U8(v * 3) >>

\* A variant of the bounds check of render_tiles that tests the pixel only.
TileInBoundsPixelOnly(finaly, pixel) == ~(pixel < 0 \/ pixel > 159)

\* the bounds check of render_tiles (the negation of its `continue` test)
TileInBounds(finaly, pixel) ==
    ~(finaly < 0 \/ finaly > 143 \/ pixel < 0 \/ pixel > 159)

\* one turn of the pixel loop of render_tiles, from the colour number on:
\* the store it makes, if any
TilePixelStore(s, pixel, data_1, data_2, color_bit) ==
    LET color_num == BitOr(Shl8(BitAnd(Shr(data_2, color_bit), 1), 1),
                           BitAnd(Shr(data_1, color_bit), 1))
        color  == GetColor(s, color_num, COLOR_PALLETTE_ADDR)
        finaly == ReadMemory(s, CURRENT_SCANLINE_ADDR)
    IN  [ stored |-> TileInBounds(finaly, pixel),
          x      |-> pixel,
          y      |-> finaly,
          at     |-> PixelIndices(pixel, finaly),
          rgb    |-> ColorBytes(color) ]

\* one turn of the pixel loop of render_tiles, from the tile data on
TilePixelData(s, pixel, tile_location, line, x_pos) ==
    TilePixelStore(s, pixel,
                   ReadMemory(s, U16(tile_location + line)),
                   ReadMemory(s, U16(tile_location + line + 1)),
                   7 - (x_pos % 8))

\* one turn of the pixel loop of render_tiles, from the tile number on
TilePixelTile(s, pixel, unsigned, tile_num, y_pos, x_pos) ==
    TilePixelData(s, pixel,
                  IF unsigned THEN U16(\h8000 + tile_num * 16)
                              ELSE U16(\h8800 + U16((tile_num + 128) * 16)),
                  (y_pos % 8) * 2,
                  x_pos)

\* one turn of the pixel loop of render_tiles, from the tile address on
TilePixelAt(s, lcd_control, pixel, using_window, y_pos, x_pos) ==
    LET background_memory ==
            IF using_window
            THEN (IF BitAnd(lcd_control, 64) > 0 THEN \h9C00 ELSE \h9800)
            ELSE (IF BitAnd(lcd_control, 8) > 0 THEN \h9C00 ELSE \h9800)
        tile_row == (y_pos \div 8) * 32
        tile_col == x_pos \div 8
        tile_address == U16(background_memory + tile_row + tile_col)
    IN  TilePixelTile(s, pixel, BitAnd(lcd_control, 16) > 0,
                      ReadMemory(s, tile_address), y_pos, x_pos)

\* the positions of render_tiles, with the window test made
TilePixelWindow(s, lcd_control, pixel, using_window, scanline) ==
    LET scroll_y == ReadMemory(s, SCROLL_Y_ADDR)
        scroll_x == ReadMemory(s, SCROLL_X_ADDR)
        window_y == ReadMemory(s, WINDOW_Y_ADDR)
        window_x == U8(ReadMemory(s, WINDOW_X_ADDR) - 7)
    IN  TilePixelAt(s, lcd_control, pixel, using_window,
                    IF using_window THEN U8(scanline - window_y)
                                    ELSE U8(scroll_y + scanline),
                    IF using_window /\ pixel >= window_x
                    THEN U8(pixel - window_x) ELSE U8(pixel + scroll_x))

\* one turn of the pixel loop of render_tiles: the store it makes, if any
TilePixel(s, lcd_control, pixel) ==
    TilePixelWindow(s, lcd_control, pixel,
                    /\ BitAnd(lcd_control, 32) > 0
                    /\ ReadMemory(s, WINDOW_Y_ADDR) <= ReadMemory(s, CURRENT_SCANLINE_ADDR),
                    ReadMemory(s, CURRENT_SCANLINE_ADDR))

\* the greatest element of a non-empty set of numbers
Greatest(S) ==
    LET T == { 0 - n : n \in S }
    IN  0 - (CHOOSE m \in T : \A n \in T : m <= n)

\* a pixel store as it is recorded
StoreOf(w) == [x |-> w.x, y |-> w.y, at |-> w.at]

\* the screen with the bytes of `written`, a set of pairs << index, byte >>
\* with one pair for an index
WithBytes(screen, written) ==
    LET Byte(i) == IF \E h \in written : h[1] = i
                   THEN (CHOOSE h \in written : h[1] = i)[2]
                   ELSE MemGet(screen, i)
    IN  [ i \in { j \in (DOMAIN screen) \cup { h[1] : h \in written } : Byte(j) # 0 }
            |-> Byte(i) ]

\* the stores of a loop that stay.  `order` holds a pair << index, n >> for
\* the index that the n-th store of the loop reaches: an index keeps the
\* byte of the last store that reached it.
LastStores(order) ==
    { << i, Greatest({ h[2] : h \in { g \in order : g[1] = i } }) >>
      : i \in { h[1] : h \in order } }

\* the pixel loop of render_tiles on line finaly: store n is made for
\* pixel n \div 3 and channel n % 3
TileLoop(s, lcd_control, out, finaly, order) ==
    LET Byte(n) == TilePixel(s, lcd_control, n \div 3).rgb[(n % 3) + 1]
    IN  [ screen |-> WithBytes(out.screen,
                        { << h[1], Byte(h[2]) >> : h \in LastStores(order) }),
          stores |-> out.stores \cup
                     { [x |-> pixel, y |-> finaly, at |-> PixelIndices(pixel, finaly)]
                       : pixel \in { h[2] \div 3 : h \in order } } ]

\* Cpu::render_tiles: `for pixel in 0..160`; the result carries the screen
\* and the stores made
RenderTiles(s, lcd_control, out) ==
    LET finaly == ReadMemory(s, CURRENT_SCANLINE_ADDR)
    IN  TileLoop(s, lcd_control, out, finaly,
            UNION { { << PixelIndices(pixel, finaly)[k], pixel * 3 + k - 1 >> : k \in 1..3 }
                    : pixel \in { q \in 0..159 : TileInBounds(finaly, q) } })

\* the range `7..=0` of the pixel loop of render_sprites: it has no element
SpritePixelRange == << >>

\* one turn of the pixel loop of render_sprites, for sprite number `sprite`
SpritePixel(s, lcd_control, sprite, tile_pixel) ==
    LET index == sprite * 4
        y_pos == U8(ReadMemory(s, SPRITE_ATTRIBUTE_ADDR + index) - 16)
        x_pos == U8(ReadMemory(s, SPRITE_ATTRIBUTE_ADDR + index + 1) - 8)
        tile_location == ReadMemory(s, SPRITE_ATTRIBUTE_ADDR + index + 2)
        attributes == ReadMemory(s, SPRITE_ATTRIBUTE_ADDR + index + 3)
        y_flip == BitAnd(attributes, 64) > 0
        x_flip == BitAnd(attributes, 32) > 0
        sprite_height == IF BitAnd(lcd_control, 4) > 0 THEN 16 ELSE 8
        current_scanline == ReadMemory(s, CURRENT_SCANLINE_ADDR)
        line0 == U8(current_scanline - y_pos)
        line1 == IF y_flip THEN U8(sprite_height - line0) ELSE line0
        line  == U8(line1 * 2)
        line16 == IF line >= 128 THEN 65536 - 256 + line ELSE line
        tile_data_address == U16(\h8000 + U8(tile_location * 16) + line16)
        data_1 == ReadMemory(s, tile_data_address)
        data_2 == ReadMemory(s, U16(tile_data_address + 1))
        color_bit == IF x_flip THEN 7 - tile_pixel ELSE tile_pixel
        color_num == BitOr(Shl8(BitAnd(Shr(data_2, color_bit), 1), 1),
                           BitAnd(Shr(data_1, color_bit), 1))
        color == GetColor(s, color_num, COLOR_PALLETTE_ADDR)
        x_pix == 7 - tile_pixel
        pixel == U8(x_pos + x_pix)
    IN  [ stored |-> ~(current_scanline < 0 \/ current_scanline > 143
                        \/ pixel < 0 \/ pixel > 159),
          x      |-> pixel,
          y      |-> current_scanline,
          at     |-> PixelIndices(pixel, current_scanline),
          rgb    |-> ColorBytes(color) ]

\* the test of render_sprites that the sprite meets the scanline
SpriteOnLine(s, lcd_control, sprite) ==
    LET y_pos == U8(ReadMemory(s, SPRITE_ATTRIBUTE_ADDR + sprite * 4) - 16)
        sprite_height == IF BitAnd(lcd_control, 4) > 0 THEN 16 ELSE 8
        current_scanline == ReadMemory(s, CURRENT_SCANLINE_ADDR)
    IN  current_scanline >= y_pos /\ current_scanline < U8(y_pos + sprite_height)

\* the loops of render_sprites: turn t of the pixel loop is made for sprite
\* (t - 1) \div 8 and the element (t - 1) % 8 + 1 of the pixel range, and
\* store n is made in turn n \div 3 for channel n % 3
SpriteLoop(s, lcd_control, out, turns) ==
    LET Turn(t) == SpritePixel(s, lcd_control, (t - 1) \div 8,
                               SpritePixelRange[((t - 1) % 8) + 1])
        Byte(n) == Turn(n \div 3).rgb[(n % 3) + 1]
    IN  [ screen |-> WithBytes(out.screen,
                        { << h[1], Byte(h[2]) >>
                          : h \in LastStores(
                                UNION { { << Turn(t).at[k], t * 3 + k - 1 >> : k \in 1..3 }
                                        : t \in turns }) }),
          stores |-> out.stores \cup { StoreOf(Turn(t)) : t \in turns } ]

\* Cpu::render_sprites: `for sprite in 0..40` and, for a sprite that meets
\* the scanline, the pixel loop; the turns that pass its bounds check
RenderSprites(s, lcd_control, out) ==
    SpriteLoop(s, lcd_control, out,
        { t \in 1..(40 * 8) :
            /\ SpriteOnLine(s, lcd_control, (t - 1) \div 8)
            /\ ((t - 1) % 8) + 1 <= Len(SpritePixelRange)
            /\ SpritePixel(s, lcd_control, (t - 1) \div 8,
                           SpritePixelRange[((t - 1) % 8) + 1]).stored })

\* Cpu::draw_scanline: the screen after it and the stores it made
DrawScanline(s) ==
    LET lcd_control == ReadMemory(s, LCD_CONTROL_ADDR)
        out0 == [screen |-> s.screen_data, stores |-> {}]
        out1 == IF BitAnd(lcd_control, 1) > 0 THEN RenderTiles(s, lcd_control, out0) ELSE out0
        out2 == IF BitAnd(lcd_control, 2) > 0 THEN RenderSprites(s, lcd_control, out1) ELSE out1
    IN  out2

-----------------------------------------------------------------------------
(* src/src/cpu.rs: the LCD status and the scanline counter.                *)

\* Cpu::is_lcd_enabled
IsLcdEnabled(s) == BitAnd(ReadMemory(s, LCD_CONTROL_ADDR), 128) > 0

\* A variant of set_lcd_status whose mode 2 bound is 456 - 80.
SetLcdStatusBounds456(s) ==
    LET lcd_status0 == ReadMemory(s, LCD_STATUS_ADDR)
    IN  IF ~IsLcdEnabled(s)
        THEN LET s1 == ResetScanlineValue([s EXCEPT !.scanline_counter = 456])
             IN  WriteMemory(s1, LCD_STATUS_ADDR, BitOr(BitAnd(lcd_status0, 252), 1))
        ELSE
        LET current_scanline == ReadMemory(s, CURRENT_SCANLINE_ADDR)
            current_mode  == BitAnd(lcd_status0, 3)
            mode_2_bounds == 456 - 80
            mode_3_bounds == mode_2_bounds - 172
            \* the local `mode` keeps its initial 0 on the V-Blank branch
            mode ==
                IF current_scanline >= 144 THEN 0
                ELSE IF s.scanline_counter >= mode_2_bounds THEN 2
                ELSE IF s.scanline_counter >= mode_3_bounds THEN 3
                ELSE 0
            lcd_status1 ==
                IF current_scanline >= 144 THEN BitAnd(BitOr(lcd_status0, 1), 253)
                ELSE IF s.scanline_counter >= mode_2_bounds
                     THEN BitOr(BitAnd(lcd_status0, 254), 2)
                ELSE IF s.scanline_counter >= mode_3_bounds
                     THEN BitOr(lcd_status0, 3)
                ELSE BitAnd(lcd_status0, 252)
            requested_interrupt ==
                IF current_scanline >= 144 THEN BitAnd(lcd_status1, 16) > 0
                ELSE IF s.scanline_counter >= mode_2_bounds
                     THEN BitAnd(lcd_status1, 32) > 0
                ELSE IF s.scanline_counter >= mode_3_bounds THEN FALSE
                ELSE BitAnd(lcd_status1, 8) > 0
            s1 == IF requested_interrupt /\ mode # current_mode
                  THEN RequestInterrupt(s, 1) ELSE s
            coincidence == current_scanline = ReadMemory(s1, \hFF45)
            lcd_status2 == IF coincidence THEN BitOr(lcd_status1, 4)
                                          ELSE BitAnd(lcd_status1, 251)
            s2 == IF coincidence /\ BitAnd(lcd_status2, 64) > 0
                  THEN RequestInterrupt(s1, 1) ELSE s1
        IN  WriteMemory(s2, LCD_STATUS_ADDR, lcd_status2)

\* Cpu::set_lcd_status
SetLcdStatus(s) ==
    LET lcd_status0 == ReadMemory(s, LCD_STATUS_ADDR)
    IN  IF ~IsLcdEnabled(s)
        THEN LET s1 == ResetScanlineValue([s EXCEPT !.scanline_counter = 456])
             IN  WriteMemory(s1, LCD_STATUS_ADDR, BitOr(BitAnd(lcd_status0, 252), 1))
        ELSE
        LET current_scanline == ReadMemory(s, CURRENT_SCANLINE_ADDR)
            current_mode  == BitAnd(lcd_status0, 3)
            mode_2_bounds == 458 - 80
            mode_3_bounds == mode_2_bounds - 172
            \* the local `mode` keeps its initial 0 on the V-Blank branch
            mode ==
                IF current_scanline >= 144 THEN 0
                ELSE IF s.scanline_counter >= mode_2_bounds THEN 2
                ELSE IF s.scanline_counter >= mode_3_bounds THEN 3
                ELSE 0
            lcd_status1 ==
                IF current_scanline >= 144 THEN BitAnd(BitOr(lcd_status0, 1), 253)
                ELSE IF s.scanline_counter >= mode_2_bounds
                     THEN BitOr(BitAnd(lcd_status0, 254), 2)
                ELSE IF s.scanline_counter >= mode_3_bounds
                     THEN BitOr(lcd_status0, 3)
                ELSE BitAnd(lcd_status0, 252)
            requested_interrupt ==
                IF current_scanline >= 144 THEN BitAnd(lcd_status1, 16) > 0
                ELSE IF s.scanline_counter >= mode_2_bounds
                     THEN BitAnd(lcd_status1, 32) > 0
                ELSE IF s.scanline_counter >= mode_3_bounds THEN FALSE
                ELSE BitAnd(lcd_status1, 8) > 0
            s1 == IF requested_interrupt /\ mode # current_mode
                  THEN RequestInterrupt(s, 1) ELSE s
            coincidence == current_scanline = ReadMemory(s1, \hFF45)
            lcd_status2 == IF coincidence THEN BitOr(lcd_status1, 4)
                                          ELSE BitAnd(lcd_status1, 251)
            s2 == IF coincidence /\ BitAnd(lcd_status2, 64) > 0
                  THEN RequestInterrupt(s1, 1) ELSE s1
        IN  WriteMemory(s2, LCD_STATUS_ADDR, lcd_status2)

\* the outcome of a scanline boundary on which draw_scanline ran
Drawn(s, out) ==
    [s |-> [s EXCEPT !.screen_data = out.screen],
     vblank |-> FALSE, drew |-> TRUE, stores |-> out.stores]

\* A variant of update_graphics's scanline boundary that raises V-Blank on
\* every line of the vertical-blank range.
GraphicsBoundaryEveryBlankLine(s) ==
    LET s1 == IncrementScanlineValue(s)
        current_line == ReadMemory(s1, CURRENT_SCANLINE_ADDR)
        s2 == [s1 EXCEPT !.scanline_counter = 456]
    IN  IF current_line >= 144 /\ current_line <= 153
        THEN [s |-> RequestInterrupt(s2, 0), vblank |-> TRUE, drew |-> FALSE, stores |-> {}]
        ELSE IF current_line > 153
        THEN [s |-> ResetScanlineValue(s2), vblank |-> FALSE, drew |-> FALSE, stores |-> {}]
        ELSE Drawn(s2, DrawScanline(s2))

\* A variant of update_graphics's scanline boundary that resets the
\* scanline one line late.
GraphicsBoundaryLateReset(s) ==
    LET s1 == IncrementScanlineValue(s)
        current_line == ReadMemory(s1, CURRENT_SCANLINE_ADDR)
        s2 == [s1 EXCEPT !.scanline_counter = 456]
    IN  IF current_line = 144
        THEN [s |-> RequestInterrupt(s2, 0), vblank |-> TRUE, drew |-> FALSE, stores |-> {}]
        ELSE IF current_line > 154
        THEN [s |-> ResetScanlineValue(s2), vblank |-> FALSE, drew |-> FALSE, stores |-> {}]
        ELSE Drawn(s2, DrawScanline(s2))

\* Cpu::update_graphics, from `if self.scanline_counter <= 0` on: the state
\* after the boundary, whether V-Blank was requested, whether draw_scanline
\* ran and the stores it made
GraphicsBoundary(s) ==
    LET s1 == IncrementScanlineValue(s)
        current_line == ReadMemory(s1, CURRENT_SCANLINE_ADDR)
        s2 == [s1 EXCEPT !.scanline_counter = 456]
    IN  IF current_line = 144
        THEN [s |-> RequestInterrupt(s2, 0), vblank |-> TRUE, drew |-> FALSE, stores |-> {}]
        ELSE IF current_line > 153
        THEN [s |-> ResetScanlineValue(s2), vblank |-> FALSE, drew |-> FALSE, stores |-> {}]
        ELSE Drawn(s2, DrawScanline(s2))

\* Cpu::update_graphics, with what happened in it
UpdateGraphicsOut(s, cycles) ==
    LET s1 == SetLcdStatus(s)
    IN  IF IsLcdEnabled(s1)
        THEN LET s2 == [s1 EXCEPT !.scanline_counter = U16(@ - U16(cycles))]
             IN  IF s2.scanline_counter <= 0
                 THEN GraphicsBoundary(s2)
                 ELSE [s |-> s2, vblank |-> FALSE, drew |-> FALSE, stores |-> {}]
        ELSE [s |-> s1, vblank |-> FALSE, drew |-> FALSE, stores |-> {}]

UpdateGraphics(s, cycles) == UpdateGraphicsOut(s, cycles).s

-----------------------------------------------------------------------------
(* History.  `last` names the operation that produced the state and its    *)
(* arguments; `hist` counts what has happened since construction.          *)

NoHist ==
    [ timer_cycles    |-> 0,      \* cycles handed to update_timers
      vblank_requests |-> 0,      \* calls of request_interrupt(0) by update_graphics
      wraps           |-> 0,      \* times the scanline went back from 153 to 0
      frames          |-> 0,      \* completed calls of Emulator::update
      depth           |-> 0,      \* words pushed and not yet popped
      writes          |-> 0,      \* writes made from outside
      advances        |-> 0,      \* calls of update_timers / update_graphics
      drew            |-> FALSE,  \* draw_scanline ran in the last graphics advance
      stores          |-> {} ]    \* the pixel stores of the last graphics advance

OpR(name, a, d, r) == [op |-> name, a |-> a, d |-> d, r |-> r]
Op(name, a, d)     == OpR(name, a, d, 0)

PowerOn(game) ==
    /\ Become(NewMmuCpu(game))
    /\ cycles_this_update' = 0
    /\ in_update' = FALSE

InitOf(game) ==
    LET s == NewMmuCpu(game)
    IN  /\ memory = s.memory
        /\ joypad = s.joypad
        /\ mbc1 = s.mbc1
        /\ mbc2 = s.mbc2
        /\ rom_banking = s.rom_banking
        /\ current_rom_bank = s.current_rom_bank
        /\ ram_banks = s.ram_banks
        /\ current_ram_bank = s.current_ram_bank
        /\ enable_ram = s.enable_ram
        /\ timer_counter = s.timer_counter
        /\ cartridge = s.cartridge
        /\ registers = s.registers
        /\ program_counter = s.program_counter
        /\ stack_pointer = s.stack_pointer
        /\ divider_counter = s.divider_counter
        /\ interrupt_master = s.interrupt_master
        /\ scanline_counter = s.scanline_counter
        /\ screen_data = s.screen_data
        /\ halted = s.halted
        /\ cycles_this_update = 0
        /\ in_update = FALSE
        /\ last = Op("new", 0, 0)
        /\ hist = NoHist

-----------------------------------------------------------------------------
(* Spec: the memory unit under writes from outside, after construction     *)
(* with any of the cartridges.                                             *)

MmuAddresses ==
    { \h0000, \h2000, \h4000, \h6000, \h7FFF,
      \hC000, \hDDFF, \hE000, \hFDFF }

MmuData == { \h00, \h01, \h20 }

Init == \E game \in Cartridges : InitOf(game)

DetermineRomBankingTypeStep ==
    /\ last.op = "new"
    /\ Become(DetermineRomBankingType(Cur))
    /\ last' = Op("determine_rom_banking_type", 0, 0)
    /\ UNCHANGED << cycles_this_update, in_update, hist >>

WriteMemoryStep(address, data) ==
    /\ Become(WriteMemory(Cur, address, data))
    /\ last' = Op("write_memory", address, data)
    /\ UNCHANGED << cycles_this_update, in_update, hist >>

Next ==
    \/ DetermineRomBankingTypeStep
    \/ \E address \in MmuAddresses, data \in MmuData : WriteMemoryStep(address, data)

Spec == Init /\ [][Next]_vars

-----------------------------------------------------------------------------
(* Claims checked under Spec.                                              *)

\* The part of the state that is not banking state.
NonBanking(s) ==
    [s EXCEPT !.current_rom_bank = 0, !.current_ram_bank = 0,
              !.enable_ram = FALSE, !.rom_banking = FALSE]

\* C1: a write to an address below 0x8000 leaves every byte of the backing
\* address-space array as it was; nothing but the banking state (ROM bank
\* index, RAM bank index, RAM-enable flag, banking-mode flag) changes.
C1_RomWriteKeepsBytes ==
    [][ (last'.op = "write_memory" /\ last'.a < \h8000)
            => (memory' = memory /\ NonBanking(Cur)' = NonBanking(Cur)) ]_vars

\* C1 witness: a write into the ROM range has changed the banking mode.
C1_Witness ==
    /\ last.op = "write_memory"
    /\ last.a = \h6000
    /\ mbc1
    /\ ~rom_banking

\* C2: work RAM 0xC000-0xDDFF and its echo 0xE000-0xFDFF mirror each other:
\* a byte written at a is read back at a + 0x2000, and a byte written at an
\* echo address e (up to and including 0xFDFF) is read back at e - 0x2000.
C2_EchoMirrorsBothWays ==
    /\ (last.op = "write_memory" /\ last.a >= \hC000 /\ last.a <= \hDDFF)
            => ReadMemory(Cur, last.a + \h2000) = last.d
    /\ (last.op = "write_memory" /\ last.a >= \hE000 /\ last.a <= \hFDFF)
            => ReadMemory(Cur, last.a - \h2000) = last.d

\* C8: the active ROM bank index is never 0, so that a read of
\* 0x4000-0x7FFF never resolves into bank 0 of the cartridge.
C8_RomBankNeverZero ==
    /\ current_rom_bank # 0
    /\ \A address \in {\h4000, \h7FFF} : CartridgeAddress(Cur, address) >= \h4000

\* C8 witness: with the banking controller active, a write to the low-bits
\* range whose data has all five low bits clear has left the index at 1.
C8_Witness ==
    /\ mbc1
    /\ last.op = "write_memory"
    /\ last.a = \h2000
    /\ BitAnd(last.d, 31) = 0
    /\ current_rom_bank = 1

-----------------------------------------------------------------------------
(* SpecCpu: the interrupt controller and the stack.  The request and       *)
(* enable registers are written from outside; do_interrupts is called as   *)
(* the frame loop calls it.  pop_word_from_stack has no caller in the      *)
(* repository: it is called here to take back the word just pushed.        *)

InterruptMasks == { \h00, \h01, \h02, \h04, \h05, \h10, \h17 }

StackWords == { \hABCD, \h0102 }

MaxStackDepth == 2

InterruptWriteStep(address, data) ==
    /\ Become(WriteMemory(Cur, address, data))
    /\ last' = Op("write_memory", address, data)
    /\ UNCHANGED << cycles_this_update, in_update, hist >>

DoInterruptsStep ==
    /\ Become(DoInterrupts(Cur))
    /\ last' = Op("do_interrupts", 0, 0)
    /\ UNCHANGED << cycles_this_update, in_update, hist >>

PushWordStep(word) ==
    /\ hist.depth < MaxStackDepth
    /\ Become(PushWordToStack(Cur, word))
    /\ last' = Op("push_word_to_stack", stack_pointer, word)
    /\ hist' = [hist EXCEPT !.depth = @ + 1]
    /\ UNCHANGED << cycles_this_update, in_update >>

PopWordStep ==
    /\ last.op = "push_word_to_stack"
    /\ LET r == PopWordFromStack(Cur)
       IN  /\ Become(r.s)
           /\ last' = OpR("pop_word_from_stack", last.a, last.d, r.word)
    /\ hist' = [hist EXCEPT !.depth = @ - 1]
    /\ UNCHANGED << cycles_this_update, in_update >>

NextCpu ==
    \/ \E address \in {INTERRUPT_REQUEST_ADDR, INTERRUPT_ENABLED_ADDR},
          data \in InterruptMasks : InterruptWriteStep(address, data)
    \/ DoInterruptsStep
    \/ \E word \in StackWords : PushWordStep(word)
    \/ PopWordStep

SpecCpu == Init /\ [][NextCpu]_vars

\* The interrupt kinds that are both requested and enabled in state s.
Pending(s) ==
    { k \in {0, 1, 2, 4} :
        /\ CheckInterruptBit(k, ReadMemory(s, INTERRUPT_REQUEST_ADDR))
        /\ CheckInterruptBit(k, ReadMemory(s, INTERRUPT_ENABLED_ADDR)) }

Lowest(S) == CHOOSE k \in S : \A j \in S : k <= j

\* C3: with master-enable set, one call of do_interrupts services at most
\* one interrupt, the pending kind of lowest bit index: that request bit
\* alone is cleared, the stack pointer goes down by 2 and the instruction
\* pointer ends at that kind's vector.
C3_ServicesOnlyHighestPriority ==
    [][ (last'.op = "do_interrupts" /\ interrupt_master /\ Pending(Cur) # {})
            => LET k == Lowest(Pending(Cur))
               IN  /\ ReadMemory(Cur, INTERRUPT_REQUEST_ADDR)' =
                        BitXor(ReadMemory(Cur, INTERRUPT_REQUEST_ADDR), InterruptMask(k))
                   /\ stack_pointer' = U16(stack_pointer - 2)
                   /\ program_counter' = InterruptVector(k, program_counter) ]_vars

\* C6: push_word_to_stack stores the high byte at sp-1 and the low byte at
\* sp-2 and leaves the stack pointer at sp-2; the pop_word_from_stack that
\* follows returns the word pushed, read from those two bytes, and leaves
\* the stack pointer at sp again.
C6_PushThenPop ==
    /\ last.op = "push_word_to_stack"
            => /\ stack_pointer = U16(last.a - 2)
               /\ ReadMemory(Cur, U16(last.a - 1)) = Shr(last.d, 8)
               /\ ReadMemory(Cur, U16(last.a - 2)) = last.d % 256
    /\ last.op = "pop_word_from_stack"
            => /\ last.r = last.d
               /\ last.r = ReadMemory(Cur, U16(last.a - 1)) * 256
                              + ReadMemory(Cur, U16(last.a - 2))
               /\ stack_pointer = last.a

\* C6 witness: 0xABCD has been pushed at a stack pointer that an interrupt
\* had already lowered, and popped again.
C6_Witness ==
    /\ last.op = "pop_word_from_stack"
    /\ last.r = \hABCD
    /\ last.a < \hFFFE

-----------------------------------------------------------------------------
(* SpecTimer: from the placeholder Game (the cartridge plays no part in    *)
(* the timers, the frame loop or the renderer), the timer registers are    *)
(* written from outside and the timer                                      *)
(* is advanced by update_timers, by the two step costs of the opcode       *)
(* dispatch and by the chunks 100, 156 and 256.  The divider register is   *)
(* not written here, so that it counts from power-on.                      *)

\* the state after construction from the placeholder Game of the
\* repository, whose read_catridge_data returns 0 for every address
InitPlaceholder == InitOf(EmptyMem)

TimerAddresses == { TIMER_ADDR, TIMER_MODULATOR_ADDR, TIMER_CONTROLLER_ADDR }

\* bit 2 alone with selector 1; bit 3 alone; bits 2 and 3 with selector 1;
\* every bit
TimerData == { \h05, \h08, \h0D, \hFF }

TimerCycles == { 4, 12, 100, 156, 256 }

MaxTimerWrites == 2

MaxTimerAdvances == 3

TimerWriteStep(address, data) ==
    /\ hist.writes < MaxTimerWrites
    /\ Become(WriteMemory(Cur, address, data))
    /\ last' = Op("write_memory", address, data)
    /\ hist' = [hist EXCEPT !.writes = @ + 1]
    /\ UNCHANGED << cycles_this_update, in_update >>

UpdateTimersStep(cycles) ==
    /\ hist.advances < MaxTimerAdvances
    /\ Become(UpdateTimers(Cur, cycles))
    /\ last' = Op("update_timers", cycles, 0)
    /\ hist' = [hist EXCEPT !.timer_cycles = @ + cycles, !.advances = @ + 1]
    /\ UNCHANGED << cycles_this_update, in_update >>

NextTimer ==
    \/ \E address \in TimerAddresses, data \in TimerData : TimerWriteStep(address, data)
    \/ \E cycles \in TimerCycles : UpdateTimersStep(cycles)

SpecTimer == InitPlaceholder /\ [][NextTimer]_vars

\* C4: after timer advances whose cycle counts sum to N the divider register
\* 0xFF04 has gone up by floor(N / 256) modulo 256, whatever the chunks and
\* whether or not the timer is enabled.
C4_DividerCountsEvery256 ==
    ReadMemory(Cur, DIVIDER_REGISTER_ADDR) = (hist.timer_cycles \div 256) % 256

\* C5: when the timer is enabled (bit 2 of 0xFF07) and an advance brings the
\* remaining-cycles counter to zero or below, the timer register 0xFF05
\* goes from 255 to the value of the modulator 0xFF06 with request bit 2 of
\* 0xFF0F set and the other request bits kept, and from a value below 255
\* to that value plus one with the request register kept.
C5_TickReloadsFromModulator ==
    [][ ( /\ last'.op = "update_timers"
          /\ BitAnd(ReadMemory(Cur, TIMER_CONTROLLER_ADDR), 4) > 0
          /\ timer_counter > 0
          /\ timer_counter <= last'.a )
        => IF ReadMemory(Cur, TIMER_ADDR) = 255
           THEN /\ ReadMemory(Cur, TIMER_ADDR)' = ReadMemory(Cur, TIMER_MODULATOR_ADDR)
                /\ ReadMemory(Cur, INTERRUPT_REQUEST_ADDR)' =
                      BitOr(ReadMemory(Cur, INTERRUPT_REQUEST_ADDR), 4)
           ELSE /\ ReadMemory(Cur, TIMER_ADDR)' = ReadMemory(Cur, TIMER_ADDR) + 1
                /\ ReadMemory(Cur, INTERRUPT_REQUEST_ADDR)' =
                      ReadMemory(Cur, INTERRUPT_REQUEST_ADDR) ]_vars

-----------------------------------------------------------------------------
(* SpecFrame: Emulator::update is called from power-on, one action for     *)
(* each turn of its loop.  The cartridge of the placeholder Game is all    *)
(* NOP; before the first call one 16-bit load is written from outside into *)
(* video RAM, at the address that the program counter holds in the turn    *)
(* of the second call that starts with 69904 cycles consumed.              *)

\* max_cycles_per_frame of Emulator::update
MAX_CYCLES_PER_FRAME == 69905

MaxFrames == 2

\* the cycles of one scanline and the number of scanlines
SCANLINE_CYCLES == 456
SCANLINES == 154

\* the opcode of `LD BC,nn`, the first of the 16-bit loads of do_execute_op
LD_BC_NN == \h01

\* the cycles of the cheapest and of the dearest step of do_execute_op
MIN_STEP_CYCLES == 4
MAX_STEP_CYCLES == 12

\* the program counter in turn n (from 0) of the loop of call f (from 0) of
\* update, when every turn before it was a one-byte step of 4 cycles
ProgramCounterAt(f, n) ==
    U16(NewMmuCpu(EmptyMem).program_counter
          + f * ((MAX_CYCLES_PER_FRAME + MIN_STEP_CYCLES - 1) \div MIN_STEP_CYCLES) + n)

\* the turn of the second call that starts one step short of the budget
LAST_TURN_ADDR == ProgramCounterAt(1, (MAX_CYCLES_PER_FRAME - 1) \div MIN_STEP_CYCLES)

\* the write from outside that puts the 16-bit load into video RAM
LoadProgramStep ==
    /\ last.op = "new"
    /\ Become(WriteMemory(Cur, LAST_TURN_ADDR, LD_BC_NN))
    /\ last' = Op("write_memory", LAST_TURN_ADDR, LD_BC_NN)
    /\ UNCHANGED << cycles_this_update, in_update, hist >>

\* Emulator::update up to the loop
UpdateBegin ==
    /\ last.op # "new"
    /\ ~in_update
    /\ hist.frames < MaxFrames
    /\ in_update' = TRUE
    /\ cycles_this_update' = 0
    /\ last' = Op("update", 0, 0)
    /\ UNCHANGED << memory, joypad, mbc1, mbc2, rom_banking, current_rom_bank,
                    ram_banks, current_ram_bank, enable_ram, timer_counter,
                    cartridge, registers, program_counter, stack_pointer,
                    divider_counter, interrupt_master, scanline_counter,
                    screen_data, halted, hist >>

\* a turn of the loop of Emulator::update after update_graphics, whose
\* outcome is g
LoopTurnGraphics(cycles, g) ==
    /\ Become(DoInterrupts(g.s))
    /\ cycles_this_update' = cycles_this_update + cycles
    /\ last' = Op("execute_op", cycles, 0)
    /\ hist' = [hist EXCEPT
           !.timer_cycles = @ + cycles,
           !.vblank_requests = IF g.vblank THEN @ + 1 ELSE @,
           !.wraps = IF /\ ReadMemory(Cur, CURRENT_SCANLINE_ADDR) = SCANLINES - 1
                        /\ ReadMemory(g.s, CURRENT_SCANLINE_ADDR) = 0
                     THEN @ + 1 ELSE @]

\* a turn of the loop of Emulator::update after execute_op, whose outcome is e
LoopTurn(e) ==
    LoopTurnGraphics(e.cycles, UpdateGraphicsOut(UpdateTimers(e.s, e.cycles), e.cycles))

\* one turn of the loop of Emulator::update
UpdateLoopStep ==
    /\ in_update
    /\ cycles_this_update < MAX_CYCLES_PER_FRAME
    /\ LoopTurn(ExecuteOp(Cur))
    /\ UNCHANGED in_update

\* Emulator::update after the loop
UpdateEnd ==
    /\ in_update
    /\ ~(cycles_this_update < MAX_CYCLES_PER_FRAME)
    /\ in_update' = FALSE
    /\ last' = Op("frame", cycles_this_update, 0)
    /\ hist' = [hist EXCEPT !.frames = @ + 1]
    /\ UNCHANGED << memory, joypad, mbc1, mbc2, rom_banking, current_rom_bank,
                    ram_banks, current_ram_bank, enable_ram, timer_counter,
                    cartridge, registers, program_counter, stack_pointer,
                    divider_counter, interrupt_master, scanline_counter,
                    screen_data, halted, cycles_this_update >>

NextFrame == LoadProgramStep \/ UpdateBegin \/ UpdateLoopStep \/ UpdateEnd

SpecFrame == InitPlaceholder /\ [][NextFrame]_vars

\* the number of times a count of cycles from power-on has entered scanline 144
VBlankEntries(cycles) ==
    IF cycles < 144 * SCANLINE_CYCLES THEN 0
    ELSE (cycles - 144 * SCANLINE_CYCLES) \div (SCANLINES * SCANLINE_CYCLES) + 1

-----------------------------------------------------------------------------
(* SpecRender: the render registers are written from outside before the    *)
(* LCD runs, and update_graphics is then called with a whole or a half     *)
(* scanline of cycles, which takes the scanline register through every     *)
(* line.  An advance by more cycles than the scanline counter holds is     *)
(* left out: the counter would wrap.                                       *)

\* sprites only; tiles and sprites; sprite 0 on lines 1 to 8; a tile row of
\* another colour; a scrolled background
RenderWrites ==
    { << LCD_CONTROL_ADDR, \h82 >>, << LCD_CONTROL_ADDR, \h93 >>,
      << SPRITE_ATTRIBUTE_ADDR, 17 >>, << \h8000, \hFF >>, << SCROLL_X_ADDR, 3 >> }

GraphicsCycles == { 228, 456 }

MaxRenderWrites == 1

RenderWriteStep(address, data) ==
    /\ last.op \in { "new", "write_memory" }
    /\ hist.writes < MaxRenderWrites
    /\ Become(WriteMemory(Cur, address, data))
    /\ last' = Op("write_memory", address, data)
    /\ hist' = [hist EXCEPT !.writes = @ + 1]
    /\ UNCHANGED << cycles_this_update, in_update >>

\* a call of update_graphics whose outcome is g
GraphicsAdvance(cycles, g) ==
    /\ Become(g.s)
    /\ last' = Op("update_graphics", cycles, 0)
    /\ hist' = [hist EXCEPT !.drew = g.drew, !.stores = g.stores]
    /\ UNCHANGED << cycles_this_update, in_update >>

UpdateGraphicsStep(cycles) ==
    /\ cycles <= scanline_counter
    /\ GraphicsAdvance(cycles, UpdateGraphicsOut(Cur, cycles))

NextRender ==
    \/ \E w \in RenderWrites : RenderWriteStep(w[1], w[2])
    \/ \E cycles \in GraphicsCycles : UpdateGraphicsStep(cycles)

SpecRender == InitPlaceholder /\ [][NextRender]_vars

\* the indices of the pixel buffer whose byte a step changes
ChangedBytes ==
    { i \in (DOMAIN screen_data) \cup (DOMAIN screen_data') :
          MemGet(screen_data, i) # MemGet(screen_data', i) }

\* sprite number `sprite` has no pixel on the screen: its top-left corner,
\* as render_sprites computes it, is below or right of the screen
SpriteOffScreen(s, sprite) ==
    \/ U8(ReadMemory(s, SPRITE_ATTRIBUTE_ADDR + sprite * 4) - 16) >= SCREEN_HEIGHT
    \/ U8(ReadMemory(s, SPRITE_ATTRIBUTE_ADDR + sprite * 4 + 1) - 8) >= SCREEN_WIDTH

\* C9: every store of a graphics advance is made for a computed coordinate
\* inside [0,160) x [0,144) at indices inside the 160*144*3-byte buffer,
\* the buffer changes at stored indices only, and a scanline drawn with
\* only the sprite layer enabled and every sprite off the screen leaves the
\* buffer unchanged.
C9_StoresStayOnScreen ==
    [][ last'.op = "update_graphics"
        => /\ \A w \in hist'.stores :
                 /\ w.x \in 0..(SCREEN_WIDTH - 1)
                 /\ w.y \in 0..(SCREEN_HEIGHT - 1)
                 /\ \A k \in 1..3 : w.at[k] \in 0..(SCREEN_BYTES - 1)
           /\ ChangedBytes \subseteq UNION { { w.at[k] : k \in 1..3 } : w \in hist'.stores }
           /\ ( /\ hist'.drew
                /\ BitAnd(ReadMemory(Cur, LCD_CONTROL_ADDR), 3) = 2
                /\ \A sprite \in 0..39 : SpriteOffScreen(Cur, sprite) )
              => screen_data' = screen_data ]_vars

\* draw_scanline has run on a line of the vertical blank with the tile layer
\* enabled and has stored nothing
C9_Witness ==
    /\ last.op = "update_graphics"
    /\ hist.drew
    /\ ReadMemory(Cur, CURRENT_SCANLINE_ADDR) \in 145..153
    /\ BitAnd(ReadMemory(Cur, LCD_CONTROL_ADDR), 1) = 1
    /\ hist.stores = {}

\* C10: drawing visible scanline y stores the colour of pixel x at the
\* bytes 3*(y*160 + x), 3*(y*160 + x) + 1 and 3*(y*160 + x) + 2 of the
\* pixel buffer and at no other.
C10_RowMajorThreeChannels ==
    (last.op = "update_graphics" /\ hist.drew)
        => \A w \in hist.stores :
              w.at = << 3 * (w.y * SCREEN_WIDTH + w.x),
                        3 * (w.y * SCREEN_WIDTH + w.x) + 1,
                        3 * (w.y * SCREEN_WIDTH + w.x) + 2 >>

\* the four grayscale triples of a pixel
GrayscaleTriples ==
    { << 255, 255, 255 >>, << \h77, \h77, \h77 >>, << \hCC, \hCC, \hCC >>, << 0, 0, 0 >> }

\* the three consecutive bytes of pixel k of the buffer
PixelTriple(screen, k) ==
    << MemGet(screen, 3 * k), MemGet(screen, 3 * k + 1), MemGet(screen, 3 * k + 2) >>

\* C11: after any sequence of steps every pixel of the buffer, the bytes at
\* 3k, 3k+1 and 3k+2 for 0 <= k < 160*144, is one of the four grayscale
\* triples.  A pixel with no byte in the DOMAIN of the sparse buffer is
\* (0,0,0), so the pixels that hold a stored byte are the ones to look at.
C11_PixelsAreGrayscale ==
    \A k \in { i \div 3 : i \in DOMAIN screen_data } :
        /\ k \in 0..(SCREEN_WIDTH * SCREEN_HEIGHT - 1)
        /\ PixelTriple(screen_data, k) \in GrayscaleTriples

-----------------------------------------------------------------------------
(* SpecUpdate: SpecFrame with the scheduling of Emulator::update, a        *)
(* synchronous loop: once called it takes its turns and returns, nothing   *)
(* can keep it from its next turn.                                         *)

\* a turn of the loop is taken: below the budget, the cycles of a step are
\* added.  Every operation of a turn is total, so the turn can be taken
\* whenever the loop test holds.
TurnTaken ==
    /\ in_update
    /\ cycles_this_update < MAX_CYCLES_PER_FRAME
    /\ \E cycles \in { MIN_STEP_CYCLES, MAX_STEP_CYCLES } :
           cycles_this_update' = cycles_this_update + cycles

\* the loop is left: the test fails and update returns
Returned ==
    /\ in_update
    /\ ~(cycles_this_update < MAX_CYCLES_PER_FRAME)
    /\ in_update' = FALSE

SpecUpdate ==
    SpecFrame /\ WF_cycles_this_update(TurnTaken) /\ WF_in_update(Returned)

\* C12, the state part: a step costs at least 4 and at most 12 cycles, a
\* turn of the loop is taken only below the budget of 69905 cycles, and the
\* total of a call of update is at least 69905 and less than 69905 + 12.
C12_Budget ==
    /\ cycles_this_update < MAX_CYCLES_PER_FRAME + MAX_STEP_CYCLES
    /\ last.op = "execute_op"
          => /\ last.a >= MIN_STEP_CYCLES
             /\ last.a <= MAX_STEP_CYCLES
             /\ cycles_this_update - last.a < MAX_CYCLES_PER_FRAME
    /\ last.op = "frame"
          => /\ last.a = cycles_this_update
             /\ last.a >= MAX_CYCLES_PER_FRAME

\* C12: update always terminates: every step consumes a positive number of
\* cycles (at least 4), the loop stops at the first step after which the
\* accumulated cycles are >= 69905, and the total consumed is less than
\* 69905 plus the largest single-step cost (12).
C12_UpdateTerminates ==
    /\ []C12_Budget
    /\ [][ /\ (in_update /\ in_update') => cycles_this_update' > cycles_this_update
           /\ (in_update /\ cycles_this_update >= MAX_CYCLES_PER_FRAME) => ~in_update'
         ]_vars
    /\ in_update ~> ~in_update

\* a call of update has returned after the dearest step took it from one
\* step short of the budget to the greatest total there is
C12_Witness ==
    /\ last.op = "frame"
    /\ last.a = MAX_CYCLES_PER_FRAME + MAX_STEP_CYCLES - 1

-----------------------------------------------------------------------------
(* SpecBank: the banking controller and the external RAM under writes from *)
(* outside, after construction with any of the cartridges.  An access      *)
(* fails when it indexes an array outside its length (a panic).            *)

\* the lengths of Mmu.memory and of Mmu.ram_banks
MEMORY_SIZE    == \h10000
RAM_BANKS_SIZE == \h8000

\* the index of do_read_ram_bank and do_handle_ram_banks into ram_banks
RamBankIndex(s, address) == (address - \hA000) + s.current_ram_bank * \h2000

\* Mmu::read_memory indexes inside the arrays
ReadCompletes(s, address) ==
    IF address = \hFF00 THEN TRUE
    ELSE IF address >= \h4000 /\ address <= \h7FFF THEN CartridgeAddress(s, address) >= 0
    ELSE IF address >= \hA000 /\ address <= \hBFFF
         THEN RamBankIndex(s, address) \in 0..(RAM_BANKS_SIZE - 1)
    ELSE address \in 0..(MEMORY_SIZE - 1)

\* Mmu::write_memory indexes inside the arrays
WriteCompletes(s, address, data) ==
    IF address < \h8000 THEN TRUE
    ELSE IF address >= \hA000 /\ address < \hC000
         THEN s.enable_ram => RamBankIndex(s, address) \in 0..(RAM_BANKS_SIZE - 1)
    ELSE IF address = \hFF46
         THEN \A i \in 0..(\h9F) : ReadCompletes(s, i)
    ELSE IF address >= \hFEA0 /\ address < \hFEFF THEN TRUE
    ELSE IF address >= \hE000 /\ address < \hFDFF
         THEN address - \h2000 \in 0..(MEMORY_SIZE - 1)
    ELSE address \in 0..(MEMORY_SIZE - 1)

\* the first and the last address of every range that read_memory and
\* write_memory tell apart
RegionEdges ==
    { \h0000, \h1FFF, \h2000, \h3FFF, \h4000, \h5FFF, \h6000, \h7FFF,
      \h8000, \h9FFF, \hA000, \hBFFF, \hC000, \hDFFF, \hE000, \hFDFE,
      \hFDFF, \hFE00, \hFE9F, \hFEA0, \hFEFE, \hFEFF, \hFF00, \hFF04,
      \hFF07, \hFF44, \hFF46, \hFFFF }

BankAddresses == { \h0000, \h2000, \h4000, \h6000, \hA000, \hBFFF }

\* clear; low nibble 0xA, bit 1 set; bit 0 and bit 5 set
BankData == { \h00, \h0A, \h25 }

MaxBankWrites == 3

BankWriteStep(address, data) ==
    /\ hist.writes < MaxBankWrites
    /\ Become(WriteMemory(Cur, address, data))
    /\ last' = Op("write_memory", address, data)
    /\ hist' = [hist EXCEPT !.writes = @ + 1]
    /\ UNCHANGED << cycles_this_update, in_update >>

NextBank ==
    \/ DetermineRomBankingTypeStep
    \/ \E address \in BankAddresses, data \in BankData : BankWriteStep(address, data)

SpecBank == Init /\ [][NextBank]_vars

\* C13: read and write are total on the 16-bit address domain: in every
\* reachable banking state they complete without error for every address
\* and data byte, because the RAM bank index is in 0..3 and the
\* bank-resolved offset address - 0xA000 + RAM bank * 0x2000 lies inside the
\* 0x8000-byte external RAM store.
C13_ReadWriteTotal ==
    /\ current_ram_bank \in 0..3
    /\ \A address \in { \hA000, \hBFFF } :
          RamBankIndex(Cur, address) \in 0..(RAM_BANKS_SIZE - 1)
    /\ \A address \in RegionEdges :
          /\ ReadCompletes(Cur, address)
          /\ \A data \in BankData : WriteCompletes(Cur, address, data)
    /\ DOMAIN memory \subseteq 0..(MEMORY_SIZE - 1)
    /\ DOMAIN ram_banks \subseteq 0..(RAM_BANKS_SIZE - 1)

\* with the controller in RAM banking mode a write has selected RAM bank 2:
\* a read of 0xBFFF resolves to offset 0x5FFF of the store
C13_Witness ==
    /\ mbc1
    /\ ~rom_banking
    /\ last.op = "write_memory"
    /\ last.a = \h4000
    /\ current_ram_bank = 2
    /\ RamBankIndex(Cur, \hBFFF) = \h5FFF

-----------------------------------------------------------------------------
(* More claims checked under SpecTimer.                                    *)

\* the cycles per tick of set_clock_frequency, by frequency selector
ClockPeriod(f) ==
    CASE f = 0 -> 1024
      [] f = 1 -> 16
      [] f = 2 -> 64
      [] f = 3 -> 256

\* the cycles per tick that the control byte of the current state selects
CurrentPeriod == ClockPeriod(BitAnd(ReadMemory(Cur, TIMER_CONTROLLER_ADDR), 3))

\* C14: the main timer counter advances exactly when bit 2 (0x04) of the
\* control byte 0xFF07 is set: with bit 2 set a timer advance decrements
\* the remaining-cycles counter (and reloads it when it ticks); with bit 2
\* clear, whatever the other bits, it leaves the remaining-cycles counter,
\* 0xFF05 and the interrupt request register unchanged.
C14_EnabledByBitTwo ==
    [][ last'.op = "update_timers"
        => IF BitAnd(ReadMemory(Cur, TIMER_CONTROLLER_ADDR), 4) > 0
           THEN \/ timer_counter' = timer_counter - last'.a
                \/ /\ timer_counter - last'.a <= 0
                   /\ timer_counter' = CurrentPeriod
           ELSE /\ timer_counter' = timer_counter
                /\ ReadMemory(Cur, TIMER_ADDR)' = ReadMemory(Cur, TIMER_ADDR)
                /\ ReadMemory(Cur, INTERRUPT_REQUEST_ADDR)' =
                      ReadMemory(Cur, INTERRUPT_REQUEST_ADDR) ]_vars

\* C15: while the timer is enabled, for step costs of 4 or 12 cycles, a step
\* that brings the remaining-cycles counter to zero or below reloads it
\* from the period table in that same step and ticks 0xFF05, any other
\* step takes its cycles off the counter; the counter never goes below
\* zero.
C15_TicksEveryPeriod ==
    /\ [](timer_counter >= 0)
    /\ [][ ( /\ last'.op = "update_timers"
             /\ last'.a \in { 4, 12 }
             /\ BitAnd(ReadMemory(Cur, TIMER_CONTROLLER_ADDR), 4) > 0 )
           => IF timer_counter - last'.a <= 0
              THEN /\ timer_counter' = CurrentPeriod
                   /\ ReadMemory(Cur, TIMER_ADDR)' # ReadMemory(Cur, TIMER_ADDR)
              ELSE /\ timer_counter' = timer_counter - last'.a
                   /\ ReadMemory(Cur, TIMER_ADDR)' = ReadMemory(Cur, TIMER_ADDR) ]_vars

\* C16: a write of d to the control byte 0xFF07 stores d and, if the low 2
\* bits of d differ from the previous low 2 bits, sets the remaining-cycles
\* counter to the period of the new selector; if they are the same the
\* counter is left as it was.
C16_ControlWriteReloads ==
    [][ (last'.op = "write_memory" /\ last'.a = TIMER_CONTROLLER_ADDR)
        => /\ ReadMemory(Cur, TIMER_CONTROLLER_ADDR)' = last'.d
           /\ IF BitAnd(last'.d, 3) # BitAnd(ReadMemory(Cur, TIMER_CONTROLLER_ADDR), 3)
              THEN timer_counter' = ClockPeriod(BitAnd(last'.d, 3))
              ELSE timer_counter' = timer_counter ]_vars

\* a write of the control byte that keeps the selector has left the counter
\* where an advance had brought it, 4 cycles into a period of 16
C16_Witness ==
    /\ last.op = "write_memory"
    /\ last.a = TIMER_CONTROLLER_ADDR
    /\ BitAnd(last.d, 3) = 1
    /\ timer_counter = 12

-----------------------------------------------------------------------------
(* SpecOam: the sprite attribute table, the unusable region above it and   *)
(* the DMA trigger under writes from outside, from the placeholder Game.   *)

\* the first and the last address of the sprite attribute table and of the
\* unusable region, and the DMA trigger
OAM_FIRST      == \hFE00
OAM_LAST       == \hFE9F
UNUSABLE_FIRST == \hFEA0
UNUSABLE_LAST  == \hFEFF
DMA_ADDR       == \hFF46

\* a byte of work RAM, the edges of the table and of the unusable region
\* and the byte below its last, and the trigger
OamAddresses ==
    { \hC000, OAM_FIRST, OAM_LAST, UNUSABLE_FIRST, \hFEFE, UNUSABLE_LAST, DMA_ADDR }

\* clear; a pattern; the page of work RAM
OamData == { \h00, \h5A, \hC0 }

MaxOamWrites == 3

OamWriteStep(address, data) ==
    /\ hist.writes < MaxOamWrites
    /\ Become(WriteMemory(Cur, address, data))
    /\ last' = Op("write_memory", address, data)
    /\ hist' = [hist EXCEPT !.writes = @ + 1]
    /\ UNCHANGED << cycles_this_update, in_update >>

NextOam == \E address \in OamAddresses, data \in OamData : OamWriteStep(address, data)

SpecOam == InitPlaceholder /\ [][NextOam]_vars

\* C17: a write of byte d to the DMA trigger 0xFF46 copies 160 bytes: after
\* it, for every i in 0..159, the byte at 0xFE00 + i is what a read of
\* d * 0x100 + i returned before the write.
C17_DmaCopiesSourcePage ==
    [][ (last'.op = "write_memory" /\ last'.a = DMA_ADDR)
        => \A i \in 0..(OAM_LAST - OAM_FIRST) :
              ReadMemory(Cur, OAM_FIRST + i)' = ReadMemory(Cur, last'.d * \h100 + i) ]_vars

\* C18: a write to an address of the unusable region 0xFEA0-0xFEFF, both
\* ends included, leaves the byte at that address and all other memory
\* unchanged.
C18_UnusableRegionRejectsWrites ==
    [][ (last'.op = "write_memory" /\ last'.a \in UNUSABLE_FIRST..UNUSABLE_LAST)
        => (memory' = memory /\ Cur' = Cur) ]_vars

-----------------------------------------------------------------------------
(* More claims checked under SpecBank.                                     *)

WithLowFiveBits(bank, d) ==
    LET new_bank == BitOr(BitAnd(bank, 224), BitAnd(d, 31))
    IN  IF new_bank = 0 THEN 1 ELSE new_bank

-----------------------------------------------------------------------------
(* The banking mode flag and the writes to 0x4000-0x5FFF (SpecBank).       *)

-----------------------------------------------------------------------------
(* SpecLcd: the LCD status register and the scanline counter under the     *)
(* step costs of ops.rs.  Emulator::update hands every step's cost to      *)
(* update_graphics (lib.rs:50); the costs are 4 and 12.  A program write   *)
(* to one of the LCD registers or to the interrupt request register may    *)
(* come between two steps.  Once the counter has passed below zero and     *)
(* holds a value above 456 no further step is taken from that state: a     *)
(* build with overflow checks has stopped there, one without counts on     *)
(* from 65528 or 65532.                                                    *)

LY_COMPARE_ADDR == \hFF45

StepCosts == { MIN_STEP_CYCLES, MAX_STEP_CYCLES }

\* the writes of the program, each with the scanline it waits for: the LCD
\* switched off on line 1; the mode 1 interrupt enabled on line 143; the
\* request register cleared on line 144; a write to the scanline register
\* on line 145; the coincidence interrupt enabled on line 153
LcdWrites ==
    { << 1, LCD_CONTROL_ADDR, \h11 >>, << 143, LCD_STATUS_ADDR, \h10 >>,
      << 144, INTERRUPT_REQUEST_ADDR, \h00 >>,
      << 145, CURRENT_SCANLINE_ADDR, \h99 >>, << 153, LCD_STATUS_ADDR, \h40 >> }

MaxLcdWrites == 1

LcdWriteStep(line, address, data) ==
    /\ hist.writes < MaxLcdWrites
    /\ ReadMemory(Cur, CURRENT_SCANLINE_ADDR) = line
    /\ Become(WriteMemory(Cur, address, data))
    /\ last' = Op("write_memory", address, data)
    /\ hist' = [hist EXCEPT !.writes = @ + 1]
    /\ UNCHANGED << cycles_this_update, in_update >>

LcdAdvanceStep(cycles) ==
    /\ scanline_counter <= SCANLINE_CYCLES
    /\ GraphicsAdvance(cycles, UpdateGraphicsOut(Cur, cycles))

NextLcd ==
    \/ \E w \in LcdWrites : LcdWriteStep(w[1], w[2], w[3])
    \/ \E cycles \in StepCosts : LcdAdvanceStep(cycles)

SpecLcd == InitPlaceholder /\ [][NextLcd]_vars

\* the registers of the LCD in the current state
Scanline   == ReadMemory(Cur, CURRENT_SCANLINE_ADDR)
LcdStatus  == ReadMemory(Cur, LCD_STATUS_ADDR)
Requests   == ReadMemory(Cur, INTERRUPT_REQUEST_ADDR)
LcdOn      == BitAnd(ReadMemory(Cur, LCD_CONTROL_ADDR), 128) > 0

\* a call of update_graphics with the LCD enabled
LcdUpdate == last'.op = "update_graphics" /\ LcdOn

\* the mode of a scanline after `elapsed` of its 456 cycles
ModeOf(scanline, elapsed) ==
    IF scanline \in 144..153 THEN 1
    ELSE IF elapsed < 80 THEN 2
    ELSE IF elapsed < 252 THEN 3
    ELSE 0

\* C23: with the LCD enabled, each status update writes the mode bits of
\* 0xFF41 as a function of the scanline and of elapsed = 456 - cycles
\* remaining: mode 1 on scanlines 144..153, otherwise mode 2 for elapsed in
\* [0, 80), mode 3 in [80, 252), mode 0 in [252, 456); two updates in a row
\* on a visible scanline write the modes in the order 2, 3, 0.
C23_ModeFollowsElapsed ==
    [][ LcdUpdate
        => /\ (Scanline \in 144..153 \/ SCANLINE_CYCLES - scanline_counter \in 0..455)
                => BitAnd(LcdStatus', 3) = ModeOf(Scanline, SCANLINE_CYCLES - scanline_counter)
           /\ (last.op = "update_graphics" /\ Scanline < 144
                    /\ scanline_counter < SCANLINE_CYCLES)
                => << BitAnd(LcdStatus, 3), BitAnd(LcdStatus', 3) >>
                      \in { << 2, 2 >>, << 2, 3 >>, << 3, 3 >>, << 3, 0 >>, << 0, 0 >> }
      ]_vars

\* an update on a visible scanline has moved the status from mode 3 to
\* mode 0, 252 or more cycles into the line
C23_Witness ==
    /\ last.op = "update_graphics"
    /\ LcdOn
    /\ Scanline = 2
    /\ BitAnd(LcdStatus, 3) = 0
    /\ scanline_counter = SCANLINE_CYCLES - 252 - MIN_STEP_CYCLES

\* the interrupt enable bit of a mode in a status byte: bit 3 for mode 0,
\* bit 4 for mode 1, bit 5 for mode 2, none for mode 3
ModeInterruptEnabled(status) ==
    CASE BitAnd(status, 3) = 0 -> BitAnd(status, 8) > 0
      [] BitAnd(status, 3) = 1 -> BitAnd(status, 16) > 0
      [] BitAnd(status, 3) = 2 -> BitAnd(status, 32) > 0
      [] OTHER                 -> FALSE

\* C24: with the LCD enabled and the coincidence interrupt disabled (status
\* bit 6 clear), a status update requests the LCD interrupt (bit 1 of
\* 0xFF0F, clear before) exactly when the mode it writes differs from the
\* mode before and the new mode's enable bit is set; entering V-Blank with
\* bit 4 set requests it, an update that stays in its mode does not.
C24_RequestOnModeChange ==
    [][ (LcdUpdate /\ BitAnd(LcdStatus, 64) = 0 /\ BitAnd(Requests, 2) = 0)
        => ((BitAnd(Requests', 2) > 0)
              <=> (BitAnd(LcdStatus', 3) # BitAnd(LcdStatus, 3)
                     /\ ModeInterruptEnabled(LcdStatus')))
      ]_vars

\* C25: after every status update with the LCD enabled, status bit 2 is set
\* exactly if the scanline register equalled the compare register 0xFF45
\* when the status was updated, and on each update where they are equal
\* and status bit 6 is set the LCD interrupt request bit (bit 1 of 0xFF0F)
\* is set.
C25_CoincidenceFlag ==
    [][ LcdUpdate
        => LET equal == Scanline = ReadMemory(Cur, LY_COMPARE_ADDR)
           IN  /\ (BitAnd(LcdStatus', 4) > 0) <=> equal
               /\ (equal /\ BitAnd(LcdStatus, 64) > 0) => BitAnd(Requests', 2) > 0
      ]_vars

\* with the coincidence interrupt enabled, the update on scanline 0 (the
\* compare register holds 0) has set the flag and requested the interrupt
C25_Witness ==
    /\ last.op = "update_graphics"
    /\ LcdOn
    /\ Scanline = 0
    /\ scanline_counter < SCANLINE_CYCLES
    /\ ReadMemory(Cur, LY_COMPARE_ADDR) = 0
    /\ BitAnd(LcdStatus, 64 + 4) = 64 + 4
    /\ BitAnd(Requests, 2) > 0

\* C26: when bit 7 of 0xFF40 is clear, a graphics advance of any of the
\* cycle counts sets the status mode bits to 1 and leaves the other status
\* bits, sets the cycles-remaining counter to 456 and 0xFF44 to 0, and does
\* nothing else: no interrupt is requested, the scanline is not advanced,
\* the pixel buffer is unchanged.
C26_DisabledLcdResets ==
    [][ (last'.op = "update_graphics" /\ ~LcdOn)
        => /\ Cur' = [Cur EXCEPT
                  !.scanline_counter = SCANLINE_CYCLES,
                  !.memory = MemPut(MemPut(@, CURRENT_SCANLINE_ADDR, 0),
                                    LCD_STATUS_ADDR, BitOr(BitAnd(LcdStatus, 252), 1))]
           /\ ~hist'.drew
      ]_vars

\* the LCD was switched off on line 1, and the advance after it has put
\* the scanline back to 0 and the status into mode 1
C26_Witness ==
    /\ last.op = "update_graphics"
    /\ ~LcdOn
    /\ hist.writes = 1
    /\ Scanline = 0
    /\ scanline_counter = SCANLINE_CYCLES
    /\ BitAnd(LcdStatus, 3) = 1

\* C27: with the LCD enabled, a graphics advance raises the V-Blank request
\* bit (bit 0 of 0xFF0F, clear before) exactly when that advance moves the
\* scanline register from 143 to 144.
C27_VBlankOnEntering144 ==
    [][ (LcdUpdate /\ BitAnd(Requests, 1) = 0)
        => ((BitAnd(Requests', 1) > 0) <=> (Scanline = 143 /\ Scanline' = 144))
      ]_vars

\* the request bit was cleared on line 144, the scanline has gone on
\* through 153 and 0 to 144 again and the bit is raised a second time
C27_Witness ==
    /\ last.op = "update_graphics"
    /\ hist.writes = 1
    /\ BitAnd(LcdStatus, 16 + 64) = 0
    /\ Scanline = 144
    /\ scanline_counter = SCANLINE_CYCLES
    /\ BitAnd(Requests, 1) > 0

\* C28: with the LCD enabled, the scanline register advances by one in the
\* step in which the cycles accumulated since the previous advance reach
\* or exceed 456, and the counter is then reset to 456; in any other step
\* the counter goes down by the step's cost; the counter never underflows.
C28_BoundaryWhenCyclesReach456 ==
    [][ LcdUpdate
        => IF last'.a >= scanline_counter
           THEN /\ Scanline' = (Scanline + 1) % SCANLINES
                /\ scanline_counter' = SCANLINE_CYCLES
           ELSE /\ Scanline' = Scanline
                /\ scanline_counter' = scanline_counter - last'.a
      ]_vars

\* C29: in every reachable state the scanline register is in 0..153 (154
\* is not observable after a graphics advance), and a direct write to
\* 0xFF44 with any data leaves it at 0.
C29_ScanlineInRange ==
    /\ [](Scanline \in 0..(SCANLINES - 1))
    /\ [][ (last'.op = "write_memory" /\ last'.a = CURRENT_SCANLINE_ADDR)
            => Scanline' = 0 ]_vars

\* the advance that ends scanline 153 has put the register back to 0 (the
\* V-Blank request of line 144 is still pending)
C29_Witness ==
    /\ last.op = "update_graphics"
    /\ Scanline = 0
    /\ scanline_counter = SCANLINE_CYCLES
    /\ hist.writes = 0
    /\ BitAnd(Requests, 1) > 0

-----------------------------------------------------------------------------
(* The service of a single pending interrupt (SpecCpu).                    *)

\* the vector of each interrupt kind, and the mask of its request bit
VectorOfKind == (0 :> \h40) @@ (1 :> \h48) @@ (2 :> \h50) @@ (4 :> \h60)
MaskOfKind   == (0 :> 1) @@ (1 :> 2) @@ (2 :> 4) @@ (4 :> 16)

\* C30: with master-enable set and exactly one interrupt kind k both
\* requested and enabled, the service clears request bit k and no other,
\* leaves 0xFFFF unchanged, clears master-enable, pushes the instruction
\* pointer held at the call and sets it to k's vector (0x40, 0x48, 0x50,
\* 0x60 for bits 0, 1, 2, 4); a kind requested but not enabled is not
\* serviced and its request bit stays set.
C30_ServiceOfOneKind ==
    [][ (last'.op = "do_interrupts" /\ interrupt_master)
        => /\ Cardinality(Pending(Cur)) = 1
                => LET k == Lowest(Pending(Cur))
                   IN  /\ Requests' = Requests - MaskOfKind[k]
                       /\ ReadMemory(Cur, INTERRUPT_ENABLED_ADDR)' =
                             ReadMemory(Cur, INTERRUPT_ENABLED_ADDR)
                       /\ ~interrupt_master'
                       /\ stack_pointer' = U16(stack_pointer - 2)
                       /\ ReadMemory(Cur', U16(stack_pointer - 1)) = Shr(program_counter, 8)
                       /\ ReadMemory(Cur', U16(stack_pointer - 2)) = program_counter % 256
                       /\ program_counter' = VectorOfKind[k]
           /\ \A j \in {0, 1, 2, 4} :
                (BitAnd(Requests, MaskOfKind[j]) > 0
                    /\ BitAnd(ReadMemory(Cur, INTERRUPT_ENABLED_ADDR), MaskOfKind[j]) = 0)
                => BitAnd(Requests', MaskOfKind[j]) > 0
      ]_vars

\* with all four kinds requested and the joypad alone enabled, the service
\* has cleared bit 4, left the bits 0, 1 and 2, pushed 0x0100 and gone to
\* 0x60
C30_Witness ==
    /\ last.op = "do_interrupts"
    /\ ~interrupt_master
    /\ Requests = \h07
    /\ ReadMemory(Cur, INTERRUPT_ENABLED_ADDR) = \h10
    /\ program_counter = \h60
    /\ stack_pointer = \hFFFC
    /\ ReadMemory(Cur, \hFFFD) = \h01
    /\ ReadMemory(Cur, \hFFFC) = \h00

\* C31: when master-enable is clear, a call of do_interrupts is a no-op
\* for every combination of request and enable masks: the instruction
\* pointer, the stack pointer, the request and enable registers and all
\* memory are unchanged.
C31_NoServiceWithoutMaster ==
    [][ (last'.op = "do_interrupts" /\ ~interrupt_master) => Cur' = Cur ]_vars

\* master-enable was cleared by a service; a kind requested and enabled
\* after it is still pending after a call of do_interrupts
C31_Witness ==
    /\ last.op = "do_interrupts"
    /\ ~interrupt_master
    /\ Pending(Cur) = {0, 1, 2, 4}

-----------------------------------------------------------------------------
(* SpecRun: Emulator::update is called from power-on with the V-Blank      *)
(* interrupt enabled: the enable register is written from outside before   *)
(* the first call.  The cartridge of the placeholder Game is all NOP.  The  *)
(* V-Blank of the first frame is serviced; the frames go on after it.      *)

V_BLANK_ENABLED == \h01

EnableInterruptsStep ==
    /\ last.op = "new"
    /\ Become(WriteMemory(Cur, INTERRUPT_ENABLED_ADDR, V_BLANK_ENABLED))
    /\ last' = Op("write_memory", INTERRUPT_ENABLED_ADDR, V_BLANK_ENABLED)
    /\ UNCHANGED << cycles_this_update, in_update, hist >>

NextRun == EnableInterruptsStep \/ UpdateBegin \/ UpdateLoopStep \/ UpdateEnd

SpecRun == InitPlaceholder /\ [][NextRun]_vars

\* C32: a call of do_interrupts that has serviced an interrupt leaves
\* master-enable clear, and once it is clear it stays clear over all later
\* steps and frames: no call of do_interrupts changes the stack pointer, the
\* instruction pointer (it is where the step's execute_op left it) or
\* clears a bit of the request register, so every interrupt requested
\* afterwards stays pending.
C32_MasterStaysClear ==
    [][ /\ (stack_pointer' # stack_pointer) => ~interrupt_master'
        /\ ~interrupt_master
             => /\ ~interrupt_master'
                /\ stack_pointer' = stack_pointer
                /\ last'.op = "execute_op"
                     => /\ program_counter' = ExecuteOp(Cur).s.program_counter
                        /\ \A k \in {0, 1, 2, 4} :
                              BitAnd(Requests, InterruptMask(k)) > 0
                                 => BitAnd(Requests', InterruptMask(k)) > 0
      ]_vars

\* the V-Blank of the first frame was serviced (one word on the stack); the
\* V-Blank of the second traversal is requested and enabled and is still
\* pending when the second call of update has returned
C32_Witness ==
    /\ last.op = "frame"
    /\ hist.frames = 2
    /\ hist.vblank_requests = 2
    /\ ~interrupt_master
    /\ stack_pointer = \hFFFC
    /\ Pending(Cur) = {0}

-----------------------------------------------------------------------------
(* SpecSprite: the sprite layer alone.  Before the LCD runs the program    *)
(* switches the tile layer off and the sprite layer on, places sprite 0 at *)
(* the top-left corner of the screen (rows 1 to 8, columns 8 to 15) and    *)
(* gives the first row of its tile a colour; update_graphics is then       *)
(* called with a whole or a half scanline of cycles.                       *)

SpriteSetup ==
    << << LCD_CONTROL_ADDR, \h82 >>, << SPRITE_ATTRIBUTE_ADDR, 17 >>,
       << SPRITE_ATTRIBUTE_ADDR + 1, 16 >>, << \h8000, \hFF >> >>

SpriteSetupStep ==
    /\ hist.writes < Len(SpriteSetup)
    /\ LET w == SpriteSetup[hist.writes + 1]
       IN  /\ Become(WriteMemory(Cur, w[1], w[2]))
           /\ last' = Op("write_memory", w[1], w[2])
    /\ hist' = [hist EXCEPT !.writes = @ + 1]
    /\ UNCHANGED << cycles_this_update, in_update >>

SpriteAdvanceStep(cycles) ==
    /\ hist.writes = Len(SpriteSetup)
    /\ UpdateGraphicsStep(cycles)

NextSprite ==
    \/ SpriteSetupStep
    \/ \E cycles \in GraphicsCycles : SpriteAdvanceStep(cycles)

SpecSprite == InitPlaceholder /\ [][NextSprite]_vars

\* the columns of the 8 pixels of sprite number `sprite`, as render_sprites
\* computes them, that lie in [0, 160)
SpriteColumns(s, sprite) ==
    LET x_pos == U8(ReadMemory(s, SPRITE_ATTRIBUTE_ADDR + sprite * 4 + 1) - 8)
    IN  { U8(x_pos + x_pix) : x_pix \in 0..7 } \cap (0..(SCREEN_WIDTH - 1))

\* C33: with the sprite layer enabled, drawing a scanline stores, for each
\* of the 40 sprites whose vertical extent contains the scanline, a pixel
\* at every computed column of the sprite that lies in [0, 160).
C33_SpriteRowIsStored ==
    [][ (last'.op = "update_graphics" /\ hist'.drew
            /\ BitAnd(ReadMemory(Cur, LCD_CONTROL_ADDR), 2) > 0)
        => \A sprite \in 0..39 :
              SpriteOnLine(Cur', ReadMemory(Cur, LCD_CONTROL_ADDR), sprite)
                 => \A x \in SpriteColumns(Cur', sprite) :
                       \E w \in hist'.stores :
                          w.x = x /\ w.y = ReadMemory(Cur', CURRENT_SCANLINE_ADDR)
      ]_vars

-----------------------------------------------------------------------------
\* C34: in a traversal of the scanlines with the LCD enabled, a graphics
\* advance that makes a visible scanline (0..143, 0 included) the active
\* one draws it, and draw_scanline is not invoked while the active scanline
\* is in the vertical-blank range 144..153.
C34_DrawOncePerVisibleLine ==
    [][ LcdUpdate
        => /\ (Scanline' # Scanline /\ Scanline' \in 0..(SCREEN_HEIGHT - 1))
                => hist'.drew
           /\ hist'.drew => Scanline' \in 0..(SCREEN_HEIGHT - 1)
      ]_vars

-----------------------------------------------------------------------------
(* SpecOps: Cpu::execute_op, step by step from power-on.  The cartridge of *)
(* the repository reads as zero, so the instruction pointer walks through  *)
(* NOPs from 0x100 to the end of the cartridge area; when it arrives at    *)
(* the first byte of video RAM a program of three bytes is written there   *)
(* from outside, and execute_op goes on through it.                        *)

PROGRAM_ADDR == \h8000

ProgramLength == 3

\* the opcodes do_execute_op has an arm for
DefinedOpcodes == { \h00, \h01, \h11, \h21, \h31 }

\* the 16-bit immediate loads among them
LoadOpcodes == { \h01, \h11, \h21, \h31 }

\* the defined opcodes and, of the others: LD (BC),A, a byte used as an
\* operand, STOP, HALT, the CB prefix, an opcode the processor does not
\* have and RST 38
ProgramBytes == DefinedOpcodes \cup { \h02, \h12, \h10, \h76, \hCB, \hD3, \hFF }

LoadOpStep(data) ==
    /\ program_counter = PROGRAM_ADDR
    /\ hist.writes < ProgramLength
    /\ Become(WriteMemory(Cur, PROGRAM_ADDR + hist.writes, data))
    /\ last' = Op("write_memory", PROGRAM_ADDR + hist.writes, data)
    /\ hist' = [hist EXCEPT !.writes = @ + 1]
    /\ UNCHANGED << cycles_this_update, in_update >>

ExecuteOpStep ==
    /\ program_counter = PROGRAM_ADDR => hist.writes = ProgramLength
    /\ program_counter < PROGRAM_ADDR + ProgramLength
    /\ LET e == ExecuteOp(Cur)
       IN  /\ Become(e.s)
           /\ last' = OpR("execute_op", ReadMemory(Cur, program_counter),
                          program_counter, e.cycles)
    /\ UNCHANGED << cycles_this_update, in_update, hist >>

NextOps ==
    \/ \E data \in ProgramBytes : LoadOpStep(data)
    \/ ExecuteOpStep

SpecOps == InitPlaceholder /\ [][NextOps]_vars

\* C35: for every opcode byte without a handler, a non-halted step costs
\* exactly 4 cycles, changes no register pair (the flags are in AF), nor the
\* stack pointer, nor a memory byte, and advances the instruction pointer by
\* one; do_execute_op has an outcome for each of the 256 opcode values.
C35_UndefinedOpcodeIsNop ==
    /\ [](\A operation \in (0..255) \ DefinedOpcodes :
             DoExecuteOp(Cur, operation) = [s |-> Cur, cycles |-> 4])
    /\ [](\A operation \in DefinedOpcodes :
             DoExecuteOp(Cur, operation).cycles \in {MIN_STEP_CYCLES, MAX_STEP_CYCLES})
    /\ [][ (last'.op = "execute_op" /\ ~halted /\ last'.a \notin DefinedOpcodes)
            => /\ last'.r = 4
               /\ registers' = registers
               /\ stack_pointer' = stack_pointer
               /\ memory' = memory
               /\ ram_banks' = ram_banks
               /\ program_counter' = U16(program_counter + 1)
               /\ ~halted'
      ]_vars

\* the program CB D3 FF, none of whose bytes has a handler, has been
\* stepped through from the first byte of video RAM
C35_Witness ==
    /\ last = OpR("execute_op", \hFF, PROGRAM_ADDR + 2, 4)
    /\ ReadMemory(Cur, PROGRAM_ADDR) = \hCB
    /\ ReadMemory(Cur, PROGRAM_ADDR + 1) = \hD3
    /\ program_counter = PROGRAM_ADDR + 3
    /\ registers = NewMmuCpu(EmptyMem).registers
    /\ ~halted

-----------------------------------------------------------------------------
\* the 16-bit values that the operand bytes at pc + 1 and pc + 2 form, in
\* either byte order
OperandWords(s, pc) ==
    LET first  == ReadMemory(s, U16(pc + 1))
        second == ReadMemory(s, U16(pc + 2))
    IN  { BitOr(Shl16(first, 8), second), BitOr(Shl16(second, 8), first) }

\* C36: a step that executes a 16-bit immediate load (0x01, 0x11, 0x21,
\* 0x31) costs 12 cycles, loads one register pair with the value formed
\* from the operand bytes at PC+1 and PC+2, and leaves the instruction
\* pointer at PC+3, past the opcode and both operand bytes.
C36_LoadConsumesOperands ==
    [][ (last'.op = "execute_op" /\ last'.a \in LoadOpcodes)
        => /\ last'.r = 12
           /\ \E pair \in DOMAIN registers :
                 /\ registers'[pair] \in OperandWords(Cur, program_counter)
                 /\ \A other \in DOMAIN registers \ {pair} :
                       registers'[other] = registers[other]
           /\ program_counter' = U16(program_counter + 3)
      ]_vars

====
